---------------------------- MODULE Spec2Model ----------------------------
(***************************************************************************)
(* Arena Blasters (src/game_env.py): the simulation kernel as a state      *)
(* machine.  One step of the machine is one call of Game.update(dt) with   *)
(* dt = 1/FPS (the step GameEnv.step uses).                                *)
(*                                                                         *)
(* Arithmetic.  The source computes in floats; the model computes in       *)
(* fixed point so that every quantity of the kinematics is an integer:     *)
(*   - lengths in 1/PX of a world unit (PX = 180),                         *)
(*   - velocities as the displacement of one tick (v * PX / FPS = 3 v),    *)
(*   - times in 1/TU of a second (TU = 300, so dt = 5).                    *)
(* With these units gravity, run, dash and jump speeds, knockbacks, the    *)
(* weapon cooldowns and all timers of the source are whole numbers.        *)
(* Square roots (math.hypot) are floor square roots of the scaled values.  *)
(* Particles and the camera are cosmetic and are not modelled.             *)
(***************************************************************************)
EXTENDS Integers, Sequences, FiniteSets, TLC

VARIABLES
    players,        \* Game.players: <<YOU, BOT>>, each a Player record
    bullets,        \* Game.bullets: sequence of Bullet records
    beams,          \* Game.beams: sequence of Beam records
    guns,           \* Game.guns: sequence of GunEntity records (ground / tossed)
    time_left,      \* Game.time_left
    spawn_timer,    \* Game.spawn_timer
    spawn_interval, \* Game.spawn_interval
    stuck_timer,    \* Game.stuck_timer
    jump_cd,        \* Game.botbrain.jump_cd
    next_id,        \* history: identity of the next entity object created
    dmg_log,        \* history: the Player.damage calls of the last tick
    upd_ev,         \* history: what each Player.update of the last tick did
    bul_log,        \* history: what each Bullet.update of the last tick did
    spent,          \* history: the bullets that have left Game.bullets
    hist            \* history: per agent, time since its last teleport etc.

vars == <<players, bullets, beams, guns, time_left, spawn_timer, spawn_interval,
          stuck_timer, jump_cd, next_id, dmg_log, upd_ev, bul_log, spent, hist>>

---------------------------------------------------------------------------
(* Units                                                                   *)
FPS == 60
PX == FPS * 3
TU == FPS * 5
DT == TU \div FPS
P(px) == px * PX
P10(tenths) == (tenths * PX) \div 10
V(pxps) == (pxps * PX) \div FPS
S100(hundredths) == (hundredths * TU) \div 100
\* A timer set to the constant c and decayed by max(0.0, t - dt) each tick.
\* For the constants of Slow the float subtraction leaves a positive remainder
\* after 60 c ticks (0.05 - 3/60 > 0 in floats), so the timer takes one tick
\* more to reach 0; the remainder is kept as one unit.
Slow == {5, 20, 25, 35, 50, 55}
Timer(hundredths) == S100(hundredths) + (IF hundredths \in Slow THEN 1 ELSE 0)

WORLD_W == 2400
WORLD_H == 1400
GRAVITY == 2200
MAX_FALL == 2400
TILE_SOLID == 0
TILE_THIN == 1
PW == 36
PH == 54
max_air_jumps == 1
\* seconds, in hundredths (4.0 s and 0.9 s)
SPAWN_INTERVAL_START == 400
SPAWN_MIN == 90
MAX_GUNS == 12

---------------------------------------------------------------------------
(* Utility                                                                 *)
Abs(a) == IF a < 0 THEN -a ELSE a
Max(a, b) == IF a >= b THEN a ELSE b
Min(a, b) == IF a <= b THEN a ELSE b
Sgn(a) == IF a > 0 THEN 1 ELSE IF a < 0 THEN -1 ELSE 0
\* a * num / den, rounded toward zero (the float product, to the unit)
Scale(a, num, den) == Sgn(a) * ((Abs(a) * num) \div den)
clamp(v, lo, hi) == IF v < lo THEN lo ELSE IF v > hi THEN hi ELSE v

RECURSIVE isqrt_bs(_, _, _)
isqrt_bs(n, lo, hi) ==
    IF lo >= hi THEN lo
    ELSE LET mid == (lo + hi + 1) \div 2
         IN IF mid * mid <= n THEN isqrt_bs(n, mid, hi) ELSE isqrt_bs(n, lo, mid - 1)

\* math.hypot, floored; large arguments are scaled down first to stay in range
hypot(dx, dy) ==
    IF dy = 0 THEN Abs(dx)
    ELSE IF dx = 0 THEN Abs(dy)
    ELSE LET s == (Max(Abs(dx), Abs(dy)) \div 30000) + 1
             ax == Abs(dx) \div s
             ay == Abs(dy) \div s
         IN isqrt_bs(ax * ax + ay * ay, 0, 46340) * s

\* dx*dx + dy*dy <= r*r  (compare = "le")  or  < r*r  (compare = "lt")
within(dx, dy, r, strict) ==
    /\ Abs(dx) <= r
    /\ Abs(dy) <= r
    /\ IF strict THEN dx * dx + dy * dy < r * r ELSE dx * dx + dy * dy <= r * r

\* (cos, sin) of atan2(dy, dx), times mag
direction(dx, dy, mag) ==
    LET s == (Max(Abs(dx), Abs(dy)) \div 16000) + 1
        ax == Scale(dx, 1, s)
        ay == Scale(dy, 1, s)
        d == hypot(ax, ay)
    IN IF d = 0 THEN <<mag, 0>>
       ELSE <<Scale(ax, mag, d), Scale(ay, mag, d)>>

---------------------------------------------------------------------------
(* Rect                                                                    *)
Rect(x, y, w, h) == [x |-> x, y |-> y, w |-> w, h |-> h]
left(r) == r.x
right(r) == r.x + r.w
top(r) == r.y
bottom(r) == r.y + r.h
intersects(a, b) ==
    ~(right(a) <= left(b) \/ left(a) >= right(b) \/
      bottom(a) <= top(b) \/ top(a) >= bottom(b))

---------------------------------------------------------------------------
(* Level, wind zones, teleporters                                          *)
Tile(r, t) == [r |-> r, t |-> t]
seg == WORLD_W \div 5
HFrac(pct) == P((WORLD_H * pct) \div 100)
floor_y == HFrac(86)

build_level ==
    << Tile(Rect(P(60), floor_y, P(WORLD_W - 120), P(40)), TILE_SOLID),
       Tile(Rect(0, 0, P(40), P(WORLD_H)), TILE_SOLID),
       Tile(Rect(P(WORLD_W - 40), 0, P(40), P(WORLD_H)), TILE_SOLID),
       Tile(Rect(P10(seg * 6), HFrac(70), P(seg), P(18)), TILE_THIN),
       Tile(Rect(P(seg * 2), HFrac(62), P(seg), P(18)), TILE_SOLID),
       Tile(Rect(P10(seg * 32), HFrac(54), P(seg), P(18)), TILE_THIN),
       Tile(Rect(P(seg), HFrac(44), P10(seg * 9), P(18)), TILE_THIN),
       Tile(Rect(P10(seg * 26), HFrac(36), P10(seg * 9), P(18)), TILE_THIN),
       Tile(Rect(P10(seg * 16), HFrac(26), P10(seg * 8), P(18)), TILE_THIN),
       Tile(Rect(P10(seg * 36), HFrac(22), P10(seg * 8), P(18)), TILE_THIN) >>

build_windzones ==
    LET top_margin == P(120)
        height == floor_y - top_margin
    IN << [rect |-> Rect(P((WORLD_W * 35) \div 100), floor_y - P(180), P(120), P(180)),
           strength |-> 1800],
          [rect |-> Rect(P((WORLD_W * 62) \div 100), floor_y - P(220), P(120), P(220)),
           strength |-> 1600],
          [rect |-> Rect(P(80), top_margin, P(140), height), strength |-> 2300],
          [rect |-> Rect(P(WORLD_W - 220), top_margin, P(140), height), strength |-> 2300] >>

build_teleports ==
    LET a == Rect(P((WORLD_W * 15) \div 100), HFrac(40) - P(24), P(36), P(60))
        b == Rect(P((WORLD_W * 85) \div 100) - P(36), HFrac(32) - P(24), P(36), P(60))
        c == Rect(P(WORLD_W \div 2) - P(18), floor_y - P(64), P(36), P(60))
        d == Rect(P(WORLD_W \div 2) - P(18), HFrac(22) - P(60), P(36), P(60))
    IN << [rect |-> a, exit |-> <<b.x + b.w + P(20), b.y + b.h>>],
          [rect |-> b, exit |-> <<a.x - P(20), a.y + a.h>>],
          [rect |-> c, exit |-> <<d.x + d.w + P(20), d.y + d.h>>],
          [rect |-> d, exit |-> <<c.x - P(20), c.y + c.h>>] >>

respawns ==
    << <<P((WORLD_W * 18) \div 100), HFrac(20)>>,
       <<P((WORLD_W * 82) \div 100), HFrac(20)>>,
       <<P(WORLD_W \div 2), HFrac(20)>> >>

---------------------------------------------------------------------------
(* Weapons                                                                 *)
GunDef(name, dmg, cooldown, speed, ammo, special, pellet, spread_deg) ==
    [name |-> name, dmg |-> dmg, cooldown |-> Timer(cooldown), speed |-> speed,
     ammo |-> ammo, special |-> special, pellet |-> pellet, spread_deg |-> spread_deg]

\* cooldowns in hundredths of a second
GUNS ==
    << GunDef("Pistol", 18, 25, 1000, 18, "", 1, 0),
       GunDef("SMG", 9, 9, 950, 32, "burst3", 1, 5),
       GunDef("Shotgun", 24, 55, 820, 16, "spread", 7, 10),
       GunDef("Rifle", 22, 22, 1150, 28, "", 1, 0),
       GunDef("Sniper", 50, 85, 1700, 6, "sniper", 1, 0),
       GunDef("Rocket", 55, 95, 720, 7, "rocket", 1, 0),
       GunDef("Laser", 70, 95, 0, 3, "beam", 1, 0) >>

\* GunEntity.__init__; gid is the identity of the object (0: no object, None)
GunEntity(gid, gdef, pos, ammo, spawned) ==
    [gid |-> gid, gdef |-> gdef, x |-> pos[1], y |-> pos[2], vx |-> 0, vy |-> 0,
     state |-> "ground", owner |-> 0, ammo |-> ammo, spawned_pickup |-> spawned]

None == GunEntity(0, 0, <<0, 0>>, 0, FALSE)

---------------------------------------------------------------------------
(* Player                                                                  *)
Player(x, y) ==
    [x |-> x, y |-> y, vx |-> 0, vy |-> 0, on_ground |-> FALSE,
     drop_through_timer |-> 0, coyote |-> 0, jump_buf |-> 0, face |-> 1,
     hp |-> 100, alive |-> TRUE, kos |-> 0, deaths |-> 0,
     holding |-> None, attack_cool |-> 0, invuln |-> 0, hitlag |-> 0,
     last_aim |-> <<x + P(100), y>>,
     dash_cd |-> 0, dash_time |-> 0, dashing |-> FALSE,
     air_jumps |-> max_air_jumps, tp_cd |-> 0]

aabb(p) == Rect(p.x - P(PW) \div 2, p.y - P(PH), P(PW), P(PH))
\* the point the source calls the agent's centre: (x, y - h*0.5)
center_y(p) == p.y - P(PH) \div 2
\* the hand / muzzle height: y - h*0.6
hand_y(p) == p.y - (P(PH) * 6) \div 10

\* (variant: the guard of line 376 dropped)
invulnerable_never(p) == FALSE
\* self.invuln > 0.0 (line 376)
invulnerable(p) == p.invuln > 0

\* (variant: a kill is credited to whoever is named as the attacker)
credited_to_anyone(t, att) == att # 0
\* line 385: if attacker and attacker is not self
credited(t, att) == att # 0 /\ att # t

\* Player.damage(amount, knock, attacker); att = 0 is attacker=None.
\* src names the caller (for the history variable dmg_log only).
Player_damage(w, t, amount, knock, att, src) ==
    LET p == w.players[t]
        hp1 == p.hp - amount
        dead == hp1 <= 0
        p1 == [p EXCEPT !.hp = hp1,
                        !.vx = @ + knock[1], !.vy = @ + knock[2],
                        !.invuln = Timer(35), !.hitlag = Timer(5),
                        !.alive = IF dead THEN FALSE ELSE @,
                        !.deaths = IF dead THEN @ + 1 ELSE @]
        ps1 == [w.players EXCEPT ![t] = p1]
        ps2 == IF dead /\ credited(t, att)
               THEN [ps1 EXCEPT ![att].kos = @ + 1] ELSE ps1
        after == IF invulnerable(p) THEN w.players ELSE ps2
    IN [w EXCEPT !.players = after,
                 !.dmg_log = Append(@, [tgt |-> t, att |-> att, amt |-> amount,
                                        src |-> src, pre |-> w.players,
                                        post |-> after])]

\* (variant: the dash cooldown is cleared as well)
Player_respawn_rested(p, pos) ==
    [p EXCEPT !.x = pos[1], !.y = pos[2], !.vx = 0, !.vy = 0,
              !.hp = 100, !.alive = TRUE, !.invuln = Timer(80),
              !.holding = None, !.attack_cool = 0,
              !.air_jumps = max_air_jumps, !.tp_cd = 0, !.dash_cd = 0]
\* (variant: the velocity is not reset)
Player_respawn_moving(p, pos) ==
    [p EXCEPT !.x = pos[1], !.y = pos[2],
              !.hp = 100, !.alive = TRUE, !.invuln = Timer(80),
              !.holding = None, !.attack_cool = 0,
              !.air_jumps = max_air_jumps, !.tp_cd = 0]
\* (variant: no invulnerability after the respawn)
Player_respawn_exposed(p, pos) ==
    [p EXCEPT !.x = pos[1], !.y = pos[2], !.vx = 0, !.vy = 0,
              !.hp = 100, !.alive = TRUE, !.invuln = 0,
              !.holding = None, !.attack_cool = 0,
              !.air_jumps = max_air_jumps, !.tp_cd = 0]
\* Player.respawn(pos)
Player_respawn(p, pos) ==
    [p EXCEPT !.x = pos[1], !.y = pos[2], !.vx = 0, !.vy = 0,
              !.hp = 100, !.alive = TRUE, !.invuln = Timer(80),
              !.holding = None, !.attack_cool = 0,
              !.air_jumps = max_air_jumps, !.tp_cd = 0]

\* max(0.0, t - dt)
decay(t) == Max(0, t - DT)

\* acceleration * dt, as a change of velocity
A(acc) == (acc * PX) \div (FPS * FPS)

\* A control-input record (the dict Player.update reads).  aim is <<mx, my>>,
\* or <<>> when the record has no "aim" key.
Inputs(l, r, d, j, a, rmb, dash, aim) ==
    [left |-> l, right |-> r, down |-> d, jump_pressed |-> j, attack |-> a,
     rmb_release |-> rmb, dash |-> dash, aim |-> aim]

\* (variant: coyote time does not run out)
tick_timers_lasting(p) ==
    LET dash_time == IF p.dash_time > 0 THEN decay(p.dash_time) ELSE p.dash_time
    IN [p EXCEPT !.attack_cool = decay(@), !.jump_buf = decay(@),
                 !.drop_through_timer = decay(@), !.invuln = decay(@),
                 !.hitlag = decay(@), !.dash_cd = decay(@), !.tp_cd = decay(@),
                 !.dash_time = dash_time, !.dashing = dash_time > 0]
\* lines 395-404: every timer decays by dt
tick_timers(p) ==
    LET dash_time == IF p.dash_time > 0 THEN decay(p.dash_time) ELSE p.dash_time
    IN [p EXCEPT !.attack_cool = decay(@), !.coyote = decay(@), !.jump_buf = decay(@),
                 !.drop_through_timer = decay(@), !.invuln = decay(@),
                 !.hitlag = decay(@), !.dash_cd = decay(@), !.tp_cd = decay(@),
                 !.dash_time = dash_time, !.dashing = dash_time > 0]

\* line 413: inputs.get("aim", (self.x+self.face*100, self.y-40))
aim_of(p, inp) ==
    IF inp.aim = <<>> THEN <<p.x + p.face * P(100), p.y - P(40)>> ELSE inp.aim

\* lines 416-424: no-inertia run and dash
steer(p, inp, mx) ==
    LET dirx == IF inp.left /\ ~inp.right THEN -1
                ELSE IF inp.right /\ ~inp.left THEN 1 ELSE 0
        dash_dir == IF dirx < 0 THEN -1 ELSE IF dirx > 0 THEN 1
                    ELSE IF mx > p.x THEN 1 ELSE -1
        p1 == IF inp.dash /\ p.dash_cd <= 0
              THEN [p EXCEPT !.vx = dash_dir * V(950), !.vy = Scale(@, 1, 2),
                             !.dash_time = Timer(13), !.dashing = TRUE,
                             !.dash_cd = Timer(60)]
              ELSE p
    IN IF ~p1.dashing THEN [p1 EXCEPT !.vx = dirx * V(440)] ELSE p1

\* (variant: the air jump is not rationed)
air_jump_always(p) == TRUE
\* line 432: elif self.air_jumps > 0
air_jump_available(p) == p.air_jumps > 0

\* (variant: a request is served in the update that makes it or never)
jump_unbuffered(p, inp) ==
    LET p1 == IF inp.jump_pressed THEN [p EXCEPT !.jump_buf = Timer(12)] ELSE p
        p2 == IF inp.jump_pressed
              THEN IF p1.on_ground \/ p1.coyote > 0
                   THEN [p1 EXCEPT !.vy = -V(1000), !.on_ground = FALSE,
                                   !.jump_buf = 0, !.air_jumps = max_air_jumps]
                   ELSE IF air_jump_available(p1)
                   THEN [p1 EXCEPT !.vy = -V(940), !.air_jumps = @ - 1,
                                   !.jump_buf = 0]
                   ELSE p1
              ELSE p1
    IN IF inp.down /\ p2.on_ground
       THEN [p2 EXCEPT !.drop_through_timer = Timer(20)] ELSE p2
\* lines 426-436: jump buffer, ground jump, air jump, drop-through
jump(p, inp) ==
    LET p1 == IF inp.jump_pressed THEN [p EXCEPT !.jump_buf = Timer(12)] ELSE p
        p2 == IF p1.jump_buf > 0
              THEN IF p1.on_ground \/ p1.coyote > 0
                   THEN [p1 EXCEPT !.vy = -V(1000), !.on_ground = FALSE,
                                   !.jump_buf = 0, !.air_jumps = max_air_jumps]
                   ELSE IF air_jump_available(p1)
                   THEN [p1 EXCEPT !.vy = -V(940), !.air_jumps = @ - 1,
                                   !.jump_buf = 0]
                   ELSE p1
              ELSE p1
    IN IF inp.down /\ p2.on_ground
       THEN [p2 EXCEPT !.drop_through_timer = Timer(20)] ELSE p2

RECURSIVE wind(_, _, _)
\* lines 440-443: the summed wz["strength"] * dt of the zones around the centre
wind(p, k, acc) ==
    IF k > Len(build_windzones) THEN acc
    ELSE LET r == build_windzones[k].rect
             inside == /\ p.x > left(r) /\ p.x < right(r)
                       /\ center_y(p) > top(r) /\ center_y(p) < bottom(r)
         IN wind(p, k + 1, IF inside THEN acc + A(build_windzones[k].strength) ELSE acc)

\* lines 438-444
gravity(p) == [p EXCEPT !.vy = Min(p.vy + A(GRAVITY) - wind(p, 1, 0), V(MAX_FALL))]

RECURSIVE horizontal(_, _)
\* lines 451-456: resolve x against the SOLID rectangles, in list order
horizontal(p, k) ==
    IF k > Len(build_level) THEN p
    ELSE LET r == build_level[k].r
             hit == build_level[k].t # TILE_THIN /\ intersects(aabb(p), r)
             p1 == IF hit
                   THEN [p EXCEPT !.x = IF p.vx > 0 THEN left(r) - P(PW) \div 2
                                        ELSE IF p.vx < 0 THEN right(r) + P(PW) \div 2
                                        ELSE @,
                                  !.vx = 0]
                   ELSE p
         IN horizontal(p1, k + 1)

\* (variant: no test of where the feet were before the step)
thin_lands_from_anywhere(p, r) ==
    /\ p.vy >= 0
    /\ p.drop_through_timer <= 0
    /\ bottom(aabb(p)) > top(r)
    /\ right(aabb(p)) > left(r)
    /\ left(aabb(p)) < right(r)
\* lines 463-464: the one-way test of a THIN platform r
thin_lands(p, r) ==
    /\ p.vy >= 0
    /\ p.drop_through_timer <= 0
    /\ bottom(aabb(p)) > top(r)
    /\ bottom(aabb(p)) - p.vy <= top(r) + P(2)
    /\ right(aabb(p)) > left(r)
    /\ left(aabb(p)) < right(r)

\* (variant: a landing does not put the feet on the rectangle)
land_sinking(p, r) ==
    [p EXCEPT !.vy = 0, !.on_ground = TRUE, !.coyote = Timer(8),
              !.air_jumps = max_air_jumps]
\* line 465 / 468: landing on r
land(p, r) ==
    [p EXCEPT !.y = top(r), !.vy = 0, !.on_ground = TRUE, !.coyote = Timer(8),
              !.air_jumps = max_air_jumps]

RECURSIVE vertical(_, _)
\* lines 461-470: resolve y against every rectangle, in list order.
\* s.p is the agent; s.landed and s.thin are history: whether a landing
\* happened, and the THIN platforms that altered the agent.
vertical(s, k) ==
    IF k > Len(build_level) THEN s
    ELSE LET r == build_level[k].r
             p == s.p
         IN IF build_level[k].t = TILE_THIN
            THEN IF thin_lands(p, r)
                 THEN vertical([p |-> land(p, r), landed |-> TRUE,
                                thin |-> Append(s.thin,
                                    [k |-> k, vy |-> p.vy, dtt |-> p.drop_through_timer,
                                     post |-> p.y])], k + 1)
                 ELSE vertical(s, k + 1)
            ELSE IF intersects(aabb(p), r)
                 THEN IF p.vy > 0
                      THEN vertical([s EXCEPT !.p = land(p, r), !.landed = TRUE], k + 1)
                      ELSE vertical([s EXCEPT !.p = [p EXCEPT !.y = bottom(r) + P(PH),
                                                              !.vy = 0]], k + 1)
                 ELSE vertical(s, k + 1)

\* (variant: the cooldown is not consulted)
tp_always(p) == TRUE
\* line 475: if self.tp_cd <= 0.0
tp_ready(p) == p.tp_cd <= 0

\* lines 476-477: the first teleporter, in list order, whose entry the box meets
RECURSIVE first_teleport(_, _)
first_teleport(p, k) ==
    IF k > Len(build_teleports) THEN 0
    ELSE IF intersects(aabb(p), build_teleports[k].rect) THEN k
    ELSE first_teleport(p, k + 1)

\* (variant: the velocity is carried over unscaled)
teleport_full_speed(p, tp) ==
    [p EXCEPT !.x = tp.exit[1], !.y = tp.exit[2], !.tp_cd = Timer(50)]
\* lines 478-480
teleport(p, tp) ==
    [p EXCEPT !.x = tp.exit[1], !.y = tp.exit[2],
              !.vx = Scale(@, 2, 10), !.vy = Scale(@, 2, 10), !.tp_cd = Timer(50)]

---------------------------------------------------------------------------
(* Beam                                                                    *)
\* lines 312-316: does the segment of step j of the ray meet a SOLID rectangle
ray_blocked(x, y, step, j) ==
    \E k \in 1..Len(build_level) :
        /\ build_level[k].t = TILE_SOLID
        /\ intersects(Rect(Min(x + (j - 1) * step[1], x + j * step[1]),
                           Min(y + (j - 1) * step[2], y + j * step[2]),
                           Abs(step[1]) + P(1), Abs(step[2]) + P(1)),
                      build_level[k].r)

\* line 316: the loop breaks after the first blocked step, or runs all n
first_stop(stops, n) ==
    IF stops = {} THEN n ELSE CHOOSE j \in stops : \A j2 \in stops : j <= j2

\* the point the march has reached after last steps
ray_reach(x, y, step, last) == <<x + last * step[1], y + last * step[2]>>

\* Beam.__init__, lines 309-318: march the ray in steps of 14 until a SOLID
\* rectangle is met; step is (cos, sin) * 14, n the number of steps.
ray_end(x, y, step, n) ==
    ray_reach(x, y, step, first_stop({j \in 1..n : ray_blocked(x, y, step, j)}, n))

\* Beam.__init__; ang is kept as the vector (dx, dy) the angle was taken from,
\* e is the end of the ray.  calls and hurt are history: per agent, how often
\* this beam called Player.damage on it and how often that lowered its health.
Beam_to(id, owner, start, ang, e) ==
    [id |-> id, owner |-> owner, sx |-> start[1], sy |-> start[2], ang |-> ang,
     warmup |-> S100(35), active_time |-> S100(16), width |-> P(38), age |-> 0,
     hit_once |-> {}, ex |-> e[1], ey |-> e[2],
     calls |-> <<0, 0>>, hurt |-> <<0, 0>>]

Beam(id, owner, start, ang) ==
    Beam_to(id, owner, start, ang,
            ray_end(start[1], start[2], direction(ang[1], ang[2], P(14)),
                    ((WORLD_W * 9) \div 10) \div 14))

\* seg_point_dist, computed in tenths of a world unit
seg_point_dist(ax, ay, bx, by, px, py) ==
    LET u == PX \div 10
        abx == Scale(bx - ax, 1, u)
        aby == Scale(by - ay, 1, u)
        apx == Scale(px - ax, 1, u)
        apy == Scale(py - ay, 1, u)
        ab2 == abx * abx + aby * aby
        dot == apx * abx + apy * aby
    IN IF ab2 = 0 \/ dot <= 0 THEN hypot(apx, apy) * u
       ELSE IF dot >= ab2 THEN hypot(apx - abx, apy - aby) * u
       ELSE (Abs(abx * apy - aby * apx) \div hypot(abx, aby)) * u

---------------------------------------------------------------------------
(* Player.update                                                           *)

RECURSIVE reachable_gun_any(_, _, _)
\* (variant: the state of the pickup is not looked at)
reachable_gun_any(p, gs, k) ==
    IF k > Len(gs) THEN 0
    ELSE IF /\ Abs(gs[k].x - p.x) < P(56)
            /\ Abs(gs[k].y - (p.y - P(PH))) < P(84)
         THEN k
    ELSE reachable_gun_any(p, gs, k + 1)

\* lines 487-490: the first ground pickup within reach, 0 if none
RECURSIVE reachable_gun(_, _, _)
reachable_gun(p, gs, k) ==
    IF k > Len(gs) THEN 0
    ELSE IF /\ gs[k].state = "ground"
            /\ Abs(gs[k].x - p.x) < P(56)
            /\ Abs(gs[k].y - (p.y - P(PH))) < P(84)
         THEN k
    ELSE reachable_gun(p, gs, k + 1)

\* the identities of the entities of a list
Ids(sq) == {sq[k].id : k \in 1..Len(sq)}
Gids(sq) == {sq[k].gid : k \in 1..Len(sq)}

RemoveAt(sq, k) == SubSeq(sq, 1, k - 1) \o SubSeq(sq, k + 1, Len(sq))

\* (variant: the entity picked up stays in the list)
guns_remove_not(gs, k) == gs
\* line 490: guns.remove(g)
guns_remove(gs, k) == RemoveAt(gs, k)

\* lines 484-495: secondary action, pick up or throw
secondary(w, i, aim) ==
    LET p == w.players[i]
        k == IF p.holding.gid = 0 THEN reachable_gun(p, w.guns, 1) ELSE 0
        dx == aim[1] - p.x
        dy == aim[2] - hand_y(p)
        off == IF dx = 0 /\ dy = 0 THEN <<0, 0>> ELSE direction(dx, dy, P(24))
        vel == IF dx = 0 /\ dy = 0 THEN <<0, 0>> ELSE direction(dx, dy, V(820))
    IN IF k # 0
       THEN [w EXCEPT !.guns = guns_remove(@, k),
                      !.players[i].holding =
                          [w.guns[k] EXCEPT !.owner = i, !.state = "equipped"]]
       ELSE IF p.holding.gid # 0
       THEN [w EXCEPT !.players[i].holding = None,
                      !.guns = Append(@, [p.holding EXCEPT
                                   !.x = p.x + off[1], !.y = hand_y(p) + off[2],
                                   !.owner = i, !.state = "tossed",
                                   !.vx = vel[1], !.vy = vel[2],
                                   !.spawned_pickup = FALSE])]
       ELSE w

\* Bullet.__init__ through fire_one (lines 502-509); v is (vx, vy)
Bullet(id, p, owner, v, dmg, life, radius, explosive, pierce_thin, proximity, seek) ==
    [id |-> id, x |-> p.x, y |-> hand_y(p), vx |-> v[1], vy |-> v[2], dmg |-> dmg,
     owner |-> owner, life |-> S100(life), age |-> 0, r |-> P(radius),
     explosive |-> explosive, pierce_thin |-> pierce_thin,
     proximity |-> P(proximity), seek |-> seek, spd |-> Max(hypot(v[1], v[2]), 1)]

\* a pellet's jitter: the draw u in -2..2 stands for the angle u/2 * spread_deg;
\* (cos, sin) of that angle in 1/10000, for spread_deg = 5 and 10
jitter(spread_deg, u) ==
    LET a == Abs(u) * spread_deg
        cs == CASE a = 0 -> <<10000, 0>>
                [] a = 5 -> <<9990, 436>>
                [] a = 10 -> <<9962, 872>>
                [] a = 20 -> <<9848, 1736>>
                [] OTHER -> <<10000, 0>>
    IN <<cs[1], Sgn(u) * cs[2]>>

rotate(v, cs) ==
    << Scale(v[1] * cs[1] - v[2] * cs[2], 1, 10000),
       Scale(v[1] * cs[2] + v[2] * cs[1], 1, 10000) >>

RECURSIVE pellets_sharing(_, _, _, _, _, _, _)
\* (variant: the pellets share the damage of the weapon between them)
pellets_sharing(id, p, i, g, v, draws, n) ==
    IF n = 0 THEN <<>>
    ELSE <<Bullet(id, p, i, rotate(v, jitter(g.spread_deg, Head(draws))),
                  g.dmg \div g.pellet, 60, 5, FALSE, FALSE, 0, 0)>>
         \o pellets_sharing(id + 1, p, i, g, v, Tail(draws), n - 1)
RECURSIVE pellets(_, _, _, _, _, _, _)
\* lines 513-519: n pellets, each with its own jitter draw
pellets(id, p, i, g, v, draws, n) ==
    IF n = 0 THEN <<>>
    ELSE <<Bullet(id, p, i, rotate(v, jitter(g.spread_deg, Head(draws))),
                  g.dmg, 60, 5, FALSE, FALSE, 0, 0)>>
         \o pellets(id + 1, p, i, g, v, Tail(draws), n - 1)

\* (variant: the weapon is kept whatever the count)
out_of_ammo_never(ammo) == FALSE
\* (variant: the weapon is kept until the count is negative)
out_of_ammo_below(ammo) == ammo < 0
\* line 536: if self.holding.ammo <= 0
out_of_ammo(ammo) == ammo <= 0

\* (variant: one round per pull of the trigger)
shots_fired_once(g, shot) == 1
\* lines 511-531: shots_fired, one per fire_one call and one for a beam
shots_fired(g, shot) == IF g.special = "beam" THEN 1 ELSE Len(shot)

\* (variant: the cooldown is not consulted)
can_fire_hot(p, inp) == inp.attack /\ p.holding.gid # 0
\* line 498
can_fire(p, inp) == inp.attack /\ p.attack_cool <= 0 /\ p.holding.gid # 0

\* lines 498-541: primary fire.  draws: the jitter draws of this shot
fire(w, i, aim, draws) ==
    LET p == w.players[i]
        g == GUNS[p.holding.gdef]
        dx == aim[1] - p.x
        dy == aim[2] - hand_y(p)
        vel(speed) == direction(dx, dy, speed)
        id == w.next_id
        made == CASE g.special = "spread" ->
                       pellets(id, p, i, g, vel(Scale(V(g.speed), 9, 10)), draws, g.pellet)
                  [] g.special = "burst3" ->
                       pellets(id, p, i, g, vel(Scale(V(g.speed), 95, 100)), draws, 3)
                  [] g.special = "sniper" ->
                       <<Bullet(id, p, i, vel(V(g.speed)), g.dmg, 110, 6,
                                FALSE, TRUE, 0, 90)>>
                  [] g.special = "rocket" ->
                       <<Bullet(id, p, i, vel(V(g.speed)), g.dmg, 120, 7,
                                TRUE, FALSE, 160, 0)>>
                  [] g.special = "beam" -> <<>>
                  [] OTHER ->
                       <<Bullet(id, p, i, vel(V(g.speed)), g.dmg, 90, 6,
                                FALSE, FALSE, 0, 0)>>
        \* history: each projectile remembers the weapon that fired it
        shot == [k \in 1..Len(made) |-> made[k] @@ [by |-> g.name]]
        cast == IF g.special = "beam"
                THEN <<Beam(id, i, <<p.x, hand_y(p)>>, <<dx, dy>>)>> ELSE <<>>
        ammo == p.holding.ammo - shots_fired(g, shot)
    IN [w EXCEPT !.bullets = @ \o shot,
                 !.beams = @ \o cast,
                 !.next_id = @ + Len(shot) + Len(cast),
                 !.players[i].attack_cool = g.cooldown,
                 !.players[i].holding =
                     IF out_of_ammo(ammo) THEN None ELSE [@ EXCEPT !.ammo = ammo]]

\* what one Player.update did (history); p is the agent as the update left
\* it, start the agent as the update found it
Event(p, start, ran, froze, y0, landed, thin, moved, tp, fired_ammo) ==
    [ran |-> ran, froze |-> froze, y0 |-> y0, landed |-> landed, thin |-> thin,
     moved |-> moved, tp |-> tp, fired_ammo |-> fired_ammo, end |-> p,
     start |-> start]

\* The course of Player.update(dt, inputs, ...) of agent i: the world w, the
\* inputs and jitter draws, the agent p under way (self), the aim point of
\* line 413, and the history the call leaves in upd_ev.
Course(w, i, inp, draws, p) ==
    [w |-> w, i |-> i, inp |-> inp, draws |-> draws, p |-> p,
     aim |-> aim_of(p, inp), start |-> w.players[i],
     y0 |-> p.y, landed |-> FALSE, thin |-> <<>>, moved |-> p, tp |-> 0,
     fired_ammo |-> 0, aimed |-> inp.aim # <<>>, gun |-> 0, shot |-> {}, cast |-> {},
     took |-> {}, threw |-> {}]

\* the agent under way becomes p (history: it is also the agent as moved)
becomes(c, p) == [c EXCEPT !.p = p, !.y0 = p.y, !.moved = p]

\* lines 413-444: aim, run and dash, jumps, gravity and updrafts
controls(c) ==
    becomes(c, gravity(jump(steer([c.p EXCEPT !.last_aim = c.aim], c.inp, c.aim[1]),
                            c.inp)))

\* lines 448-456
move_x(c) == [c EXCEPT !.p = horizontal([c.p EXCEPT !.x = @ + c.p.vx], 1)]

\* the agent and the history of the vertical resolution vs
settled(c, vs) == [c EXCEPT !.p = vs.p, !.landed = vs.landed, !.thin = vs.thin]

\* lines 457-470
move_y(c) ==
    settled(c, vertical([p |-> [c.p EXCEPT !.on_ground = FALSE, !.y = @ + c.p.vy],
                         landed |-> FALSE, thin |-> <<>>], 1))

\* line 472
turn(c) == [c EXCEPT !.p.face = IF c.aim[1] > c.p.x THEN 1 ELSE -1]

\* lines 478-481: through teleporter tk (0: none)
through(c, tk) ==
    [c EXCEPT !.moved = c.p, !.tp = tk,
              !.p = IF tk # 0 THEN teleport(c.p, build_teleports[tk]) ELSE c.p]

\* lines 474-481
teleports(c) == through(c, IF tp_ready(c.p) THEN first_teleport(c.p, 1) ELSE 0)

\* the agent under way is the agent of the world (self is players[i])
placed(c) == [c EXCEPT !.w = [c.w EXCEPT !.players[c.i] = c.p]]

\* w2 is the world after the secondary action (history: the entities it
\* took out of Game.guns, as they lay there, and those it put in)
handed(c, w2) ==
    [c EXCEPT !.w = w2,
              !.took = {c.w.guns[k] : k \in {j \in 1..Len(c.w.guns) :
                                                c.w.guns[j].gid \notin Gids(w2.guns)}},
              !.threw = {w2.guns[k] : k \in {j \in 1..Len(w2.guns) :
                                                w2.guns[j].gid \notin Gids(c.w.guns)}}]

\* lines 483-495
secondary_action(c) ==
    IF c.inp.rmb_release THEN handed(c, secondary(c.w, c.i, c.aim)) ELSE c

\* lines 497-541
\* w2 is the world after the shot (history: the weapon fired, its ammo
\* before the shot, the identities of the bullets and beams created)
fired(c, w2) ==
    [c EXCEPT !.fired_ammo = c.w.players[c.i].holding.ammo,
              !.gun = c.w.players[c.i].holding.gdef,
              !.shot = {w2.bullets[k].id : k \in (Len(c.w.bullets) + 1)..Len(w2.bullets)},
              !.cast = {w2.beams[k].id : k \in (Len(c.w.beams) + 1)..Len(w2.beams)},
              !.w = w2]

primary_fire(c) ==
    IF can_fire(c.w.players[c.i], c.inp)
    THEN fired(c, fire(c.w, c.i, c.aim, c.draws))
    ELSE c

\* (variant: no ring-out)
ring_out_never(c) == c
\* lines 543-544
ring_out(c) ==
    IF c.w.players[c.i].y > P(WORLD_H - 4)
    THEN [c EXCEPT !.w = Player_damage(c.w, c.i, 999, <<0, 0>>, 0, <<"ring", 0>>)]
    ELSE c

\* the world the call leaves, its history included
returns(c, ran, froze) ==
    [c.w EXCEPT !.upd_ev[c.i] =
        Event(c.w.players[c.i], c.start, ran, froze, c.y0, c.landed, c.thin,
              c.moved, c.tp, c.fired_ammo)
        @@ [aimed |-> c.aimed, gun |-> c.gun, shot |-> c.shot, cast |-> c.cast,
            took |-> c.took, threw |-> c.threw,
            keys |-> [left |-> c.inp.left, right |-> c.inp.right, dash |-> c.inp.dash,
                      jump |-> c.inp.jump_pressed, rmb |-> c.inp.rmb_release]]]

\* lines 446-544: hitlag freezes the agent; otherwise it moves and acts
after_controls(c) ==
    IF c.p.hitlag > 0 THEN returns(placed(c), TRUE, TRUE)
    ELSE returns(ring_out(primary_fire(secondary_action(placed(teleports(turn(move_y(move_x(c)))))))),
                 TRUE, FALSE)

\* lines 405-444: a dead agent only has its timers run
after_timers(c) ==
    IF ~c.p.alive THEN returns(placed(c), FALSE, FALSE)
    ELSE after_controls(controls(c))

\* Player.update(dt, inputs, ...) of agent i
Player_update(w, i, inp, draws) ==
    after_timers(Course(w, i, inp, draws, tick_timers(w.players[i])))

---------------------------------------------------------------------------
(* GunEntity.update                                                        *)
\* lines 170-193: TRUE when the pickup stays; g is the entity after the move
GunEntity_move(g) ==
    IF g.state = "ground" THEN g
    ELSE LET vy == Min(g.vy + Scale(A(GRAVITY), 9, 10), V(MAX_FALL))
             vx == Scale(g.vx, 995, 1000)
         IN [g EXCEPT !.vx = vx, !.vy = vy, !.x = @ + vx, !.y = @ + vy]

GunEntity_update(g0) ==
    LET g == GunEntity_move(g0)
        rad == P(16)
        wr1 == Rect(g.x - rad, g0.y - rad, 2 * rad, 2 * rad)
        wr == Rect(g.x - rad, g.y - rad, 2 * rad, 2 * rad)
    IN \/ g.state = "ground"
       \/ /\ \A k \in 1..Len(build_level) : ~intersects(wr1, build_level[k].r)
          /\ \A k \in 1..Len(build_level) :
                LET r == build_level[k].r
                IN IF build_level[k].t = TILE_THIN
                   THEN ~(/\ g.vy >= 0 /\ bottom(wr) > top(r)
                          /\ bottom(wr) - g.vy <= top(r) + P(2)
                          /\ right(wr) > left(r) /\ left(wr) < right(r))
                   ELSE ~intersects(wr, r)
          /\ ~(g.y > P(WORLD_H + 120) \/ g.x < -P(200) \/ g.x > P(WORLD_W + 200))

---------------------------------------------------------------------------
(* Bullet                                                                  *)
\* (variant: the owner is not skipped)
eligible_owner_too(ps, b, t) == ps[t].alive
\* lines 227 / 250 / 269: if not pl.alive or pl is self.owner: continue
eligible(ps, b, t) == ps[t].alive /\ t # b.owner

\* (variant: the explosion does not skip agents that are not alive)
splash_reaches_fallen(pl, dx, dy) == within(dx, dy, P(180), TRUE)
\* lines 283-285: if not pl.alive: continue; if dx*dx + dy*dy < 180*180
splash_reaches(pl, dx, dy) == pl.alive /\ within(dx, dy, P(180), TRUE)

RECURSIVE Bullet_explode(_, _, _, _)
\* Bullet.explode(center); t is the next agent of the loop of line 282
Bullet_explode(w, b, c, t) ==
    IF ~b.explosive \/ t > Len(w.players) THEN w
    ELSE LET pl == w.players[t]
             dx == pl.x - c[1]
             dy == center_y(pl) - c[2]
         IN IF splash_reaches(pl, dx, dy)
            THEN Bullet_explode(
                     Player_damage(w, t, 18,
                                   <<IF dx >= 0 THEN V(240) ELSE -V(240), -V(160)>>,
                                   b.owner, <<"splash", b.id>>),
                     b, c, t + 1)
            ELSE Bullet_explode(w, b, c, t + 1)

\* lines 224-240: the sniper round turns toward the nearest eligible agent
home(ps, b) ==
    LET d2(t) == LET dx == (ps[t].x - b.x) \div PX
                     dy == (center_y(ps[t]) - b.y) \div PX
                 IN dx * dx + dy * dy
        cands == {t \in DOMAIN ps : eligible(ps, b, t)}
        best == CHOOSE t \in cands :
                    \A u \in cands : d2(t) < d2(u) \/ (d2(t) = d2(u) /\ t <= u)
        bx == ps[best].x - b.x
        by == center_y(ps[best]) - b.y
        a == IF bx = 0 /\ by = 0 THEN <<0, 0>> ELSE direction(bx, by, b.spd)
        k == clamp(b.seek, 0, 1500)
        vx == b.vx + Scale(a[1] - b.vx, k, 6000)
        vy == b.vy + Scale(a[2] - b.vy, k, 6000)
        sp == Max(hypot(vx, vy), 1)
    IN IF b.seek = 0 \/ cands = {} THEN b
       ELSE [b EXCEPT !.vx = Scale(vx, b.spd, sp), !.vy = Scale(vy, b.spd, sp)]

\* lines 257-265: does the level stop the bullet whose box is rect
level_blocks(b, rect) ==
    \E k \in 1..Len(build_level) :
        LET r == build_level[k].r
        IN IF build_level[k].t = TILE_THIN
           THEN /\ ~b.pierce_thin
                /\ bottom(rect) > top(r) /\ top(rect) < top(r)
                /\ right(rect) > left(r) /\ left(rect) < right(r) /\ b.vy > 0
           ELSE intersects(rect, r)

\* line 243
Bullet_move(b) == [b EXCEPT !.x = @ + b.vx, !.y = @ + b.vy]

\* lines 244-274, for the bullet b as moved: the world after the update, the
\* bullet after it, and its result
Bullet_step(w, b) ==
    LET rect == Rect(b.x - b.r, b.y - b.r, 2 * b.r, 2 * b.r)
        ps == w.players
        near(t) == within(ps[t].x - b.x, center_y(ps[t]) - b.y, b.proximity, FALSE)
        prox == /\ b.explosive /\ b.proximity > 0
                /\ \E t \in DOMAIN ps : eligible(ps, b, t) /\ near(t)
        hits == {t \in DOMAIN ps : eligible(ps, b, t) /\ intersects(rect, aabb(ps[t]))}
        first == CHOOSE t \in hits : \A u \in hits : t <= u
        struck == Player_damage(w, first, b.dmg,
                                <<IF b.vx >= 0 THEN V(200) ELSE -V(200), -V(120)>>,
                                b.owner, <<"bullet", b.id>>)
        Res(w1, alive, why) ==
            [w |-> [w1 EXCEPT !.bul_log = Append(@,
                        [id |-> b.id, by |-> b.by, rocket |-> b.explosive /\ b.proximity > 0,
                         near |-> {t \in DOMAIN ps : t # b.owner /\ ps[t].alive /\ near(t)},
                         touch |-> {t \in DOMAIN ps : t # b.owner /\ ps[t].alive
                                                     /\ intersects(rect, aabb(ps[t]))},
                         why |-> why, alive |-> alive, again |-> b.id \in w.spent,
                         listed |-> {w.bullets[k].id : k \in 1..Len(w.bullets)}])],
             b |-> b, alive |-> alive]
    IN IF prox THEN Res(Bullet_explode(w, b, <<b.x, b.y>>, 1), FALSE, "proximity")
       ELSE IF level_blocks(b, rect)
       THEN Res(Bullet_explode(w, b, <<b.x, b.y>>, 1), FALSE, "level")
       ELSE IF hits # {}
       THEN Res(Bullet_explode(struck, b, <<ps[first].x, center_y(ps[first])>>, 1),
                FALSE, "hit")
       ELSE Res(w, b.age < b.life, "none")

\* (variant: the bullet does not age)
Bullet_update_ageless(w, b0) == Bullet_step(w, Bullet_move(home(w.players, b0)))
\* Bullet.update
Bullet_update(w, b0) ==
    Bullet_step(w, Bullet_move(home(w.players, [b0 EXCEPT !.age = @ + DT])))

---------------------------------------------------------------------------
(* Beam.update                                                             *)
\* (variant: active from the cast on)
Beam_active_early(bm) == bm.age < bm.warmup + bm.active_time
\* line 320
Beam_active(bm) == bm.age >= bm.warmup /\ bm.age < bm.warmup + bm.active_time

\* (variant: hit_once is not consulted)
not_yet_hit_ignored(bm, t) == TRUE
\* line 327: ... and pl not in self.hit_once
not_yet_hit(bm, t) == t \notin bm.hit_once

\* (variant: the 18 units of the agent's body are not added)
beam_reach_bare(bm) == bm.width \div 2
\* line 327: d <= (self.width*0.5 + 18)
beam_reach(bm) == bm.width \div 2 + P(18)

RECURSIVE Beam_hits(_, _, _)
\* lines 324-330; s.w is the world, s.bm the beam, t the next agent
Beam_hits(s, t, n) ==
    IF t > n THEN s
    ELSE LET pl == s.w.players[t]
             bm == s.bm
             d == seg_point_dist(bm.sx, bm.sy, bm.ex, bm.ey, pl.x, center_y(pl))
             owner == s.w.players[bm.owner]
             dmg == IF owner.holding.gid # 0 THEN GUNS[owner.holding.gdef].dmg ELSE 40
         IN IF pl.alive /\ t # bm.owner /\ d <= beam_reach(bm) /\ not_yet_hit(bm, t)
            THEN LET w1 == Player_damage(s.w, t, dmg,
                                     <<direction(bm.ang[1], bm.ang[2], V(80))[1], -V(60)>>,
                                     bm.owner, <<"beam", bm.id>>)
                     less == IF w1.players[t].hp < pl.hp THEN 1 ELSE 0
                 IN Beam_hits([w |-> w1,
                               bm |-> [bm EXCEPT !.hit_once = @ \cup {t},
                                                 !.calls[t] = @ + 1,
                                                 !.hurt[t] = @ + less]], t + 1, n)
            ELSE Beam_hits(s, t + 1, n)

\* Beam.update: the world and the beam after it, and its result
Beam_result(s) ==
    [w |-> s.w, bm |-> s.bm,
     alive |-> s.bm.age < s.bm.warmup + s.bm.active_time + S100(12)]

\* lines 322-331, for the beam bm as aged
Beam_step(w, bm) ==
    Beam_result(IF Beam_active(bm)
                THEN Beam_hits([w |-> w, bm |-> bm], 1, Len(w.players))
                ELSE [w |-> w, bm |-> bm])

Beam_update(w, bm0) == Beam_step(w, [bm0 EXCEPT !.age = @ + DT])

---------------------------------------------------------------------------
(* Game                                                                    *)
\* spawnable_surfaces(level), lines 662-670
spawnable_surfaces ==
    SelectSeq(build_level,
              LAMBDA e : \/ e.t = TILE_THIN
                         \/ /\ e.r.w > P(200) /\ e.r.h <= P(60)
                            /\ e.r.x >= 0 /\ right(e.r) <= P(WORLD_W))

\* line 799: a ground pickup closer than 56 to (x, y)
too_close(gs, x, y) ==
    \E k \in 1..Len(gs) :
        gs[k].state = "ground" /\ within(gs[k].x - x, gs[k].y - y, P(56), TRUE)

RECURSIVE retry(_, _, _, _, _)
\* lines 798-802: up to n fresh draws of x while the place is too close
retry(gs, y, x, rest, n) ==
    IF n = 0 \/ ~too_close(gs, x, y) THEN x
    ELSE retry(gs, y, Head(rest), Tail(rest), n - 1)

\* Game.spawn_gun; sd holds the draws: the surface, the uniform draws of x
\* (each a fraction f / den of the span), the catalog entry, the ammo offset
Game_spawn_gun(w, sd) ==
    LET r == spawnable_surfaces[sd.surf].r
        lo == r.x + P(40)
        hi == right(r) - P(40)
        X(f) == lo + ((hi - lo) * f) \div sd.den
        x == retry(w.guns, top(r) - P(24), X(sd.xs[1]),
                   [j \in 1..8 |-> X(sd.xs[j + 1])], 8)
        ammo == GUNS[sd.gun].ammo + sd.dammo
    IN IF Len(w.guns) >= MAX_GUNS THEN w
       ELSE [w EXCEPT !.guns = Append(@, GunEntity(w.next_id, sd.gun,
                                        <<x, top(r) - P(24)>>, Max(1, ammo), TRUE)),
                      !.next_id = @ + 1]

\* (variant: the interval shrinks whenever the timer elapses)
spawn_cadence_eager(w, sd) ==
    IF w.spawn_timer - DT > 0 THEN [w EXCEPT !.spawn_timer = @ - DT]
    ELSE [Game_spawn_gun(w, sd) EXCEPT
              !.spawn_interval = Max(S100(SPAWN_MIN), Scale(@, 96, 100)),
              !.spawn_timer = Max(S100(SPAWN_MIN), Scale(w.spawn_interval, 96, 100))]
\* lines 828-834: spawn cadence
spawn_cadence(w, sd) ==
    IF w.spawn_timer - DT > 0 THEN [w EXCEPT !.spawn_timer = @ - DT]
    ELSE IF Len(w.guns) < MAX_GUNS
    THEN [Game_spawn_gun(w, sd) EXCEPT
              !.spawn_interval = Max(S100(SPAWN_MIN), Scale(@, 96, 100)),
              !.spawn_timer = Max(S100(SPAWN_MIN), Scale(w.spawn_interval, 96, 100))]
    ELSE [w EXCEPT !.spawn_timer = w.spawn_interval]

\* BotBrain.think(bot, players, guns, dt).  jumps and attacks are the outcomes
\* of the random.random() < q tests of this call.
BotBrain_think(w, i, jumps, attacks) ==
    LET bot == w.players[i]
        cd == Max(0, w.jump_cd - DT)
        u == PX \div 10
        d2(x, y) == ((x - bot.x) \div u) * ((x - bot.x) \div u)
                    + ((y - bot.y) \div u) * ((y - bot.y) \div u)
        enemies == {t \in DOMAIN w.players : t # i /\ w.players[t].alive}
        target == CHOOSE t \in enemies : \A t2 \in enemies :
                      LET a == d2(w.players[t].x, w.players[t].y)
                          b == d2(w.players[t2].x, w.players[t2].y)
                      IN a < b \/ (a = b /\ t <= t2)
        aim == IF enemies # {} THEN <<w.players[target].x, w.players[target].y - P(40)>>
               ELSE <<bot.x + bot.face * P(200), bot.y - P(40)>>
        cands == {k \in 1..Len(w.guns) : w.guns[k].state = "ground"}
        near == w.guns[CHOOSE k \in cands : \A k2 \in cands :
                      LET a == d2(w.guns[k].x, w.guns[k].y)
                          b == d2(w.guns[k2].x, w.guns[k2].y)
                      IN a < b \/ (a = b /\ k <= k2)]
        dx == w.players[target].x - bot.x
        In(l, r, j, a, rmb) == Inputs(l, r, FALSE, j, a, rmb, FALSE, aim)
    IN IF bot.holding.gid = 0
       THEN IF cands # {}
            THEN LET j == cd <= 0 /\ near.y < bot.y - P(40) /\ jumps
                 IN [inp |-> In(near.x < bot.x, near.x > bot.x, j, FALSE,
                                Abs(near.x - bot.x) < P(56)
                                /\ Abs(near.y - (bot.y - P(PH))) < P(84)),
                     jump_cd |-> IF j THEN Timer(25) ELSE cd]
            ELSE [inp |-> In(FALSE, FALSE, jumps, FALSE, FALSE), jump_cd |-> cd]
       ELSE IF enemies # {}
       THEN LET j == Abs(w.players[target].y - bot.y) > P(50) /\ cd <= 0 /\ jumps
            IN [inp |-> In(Abs(dx) > P(100) /\ dx < 0, Abs(dx) > P(100) /\ dx > 0,
                           j, attacks, FALSE),
                jump_cd |-> IF j THEN Timer(35) ELSE cd]
       ELSE [inp |-> In(FALSE, FALSE, FALSE, FALSE, FALSE), jump_cd |-> cd]

\* lines 852-858: YOU takes the given inputs (override_inputs_first or the
\* keyboard), BOT the inputs of BotBrain.think.
\* ctl = [you: the inputs of YOU, jumps, attacks: the draws of the bot,
\*        jit: the jitter draws of the two agents]
bot_acts(w, th, draws) == Player_update([w EXCEPT !.jump_cd = th.jump_cd], 2, th.inp, draws)

bot_update(w, ctl) == bot_acts(w, BotBrain_think(w, 2, ctl.jumps, ctl.attacks), ctl.jit[2])

players_pass(w, ctl) == bot_update(Player_update(w, 1, ctl.you, ctl.jit[1]), ctl)

RECURSIVE guns_pass(_, _)
\* lines 861-865: todo is the copy self.guns[:], gs the list being edited
guns_pass(todo, gs) ==
    IF todo = <<>> THEN gs
    ELSE LET g == Head(todo)
             k == CHOOSE j \in 1..Len(gs) : gs[j].gid = g.gid
             gs1 == IF ~GunEntity_update(g) /\ ~g.spawned_pickup
                    THEN RemoveAt(gs, k)
                    ELSE [gs EXCEPT ![k] = GunEntity_move(g)]
         IN guns_pass(Tail(todo), gs1)

\* (variant: a bullet leaves the list only when its life is over)
retire_by_age(res) == res.b.age >= res.b.life
\* lines 870-872: a bullet whose update returned False leaves the list
retire(res) == ~res.alive

\* the place of the entity with identity id in the list sq
index_of(sq, id) == CHOOSE j \in 1..Len(sq) : sq[j].id = id

\* lines 870-872: the list after the update res of one bullet (history: the
\* bullets removed are remembered in spent)
bullet_kept(res) ==
    IF retire(res)
    THEN [res.w EXCEPT !.bullets = RemoveAt(@, index_of(@, res.b.id)),
                       !.spent = @ \cup {res.b.id}]
    ELSE [res.w EXCEPT !.bullets[index_of(res.w.bullets, res.b.id)] = res.b]

RECURSIVE bullets_pass(_, _)
\* lines 868-872
bullets_pass(w, todo) ==
    IF todo = <<>> THEN w
    ELSE bullets_pass(bullet_kept(Bullet_update(w, Head(todo))), Tail(todo))

\* lines 876-877: the list after the update res of one beam
beam_kept(res) ==
    IF res.alive
    THEN [res.w EXCEPT !.beams[index_of(res.w.beams, res.bm.id)] = res.bm]
    ELSE [res.w EXCEPT !.beams = RemoveAt(@, index_of(@, res.bm.id))]

RECURSIVE beams_pass(_, _)
\* lines 875-877
beams_pass(w, todo) ==
    IF todo = <<>> THEN w
    ELSE beams_pass(beam_kept(Beam_update(w, Head(todo))), Tail(todo))

\* Game.give_random_weapon(p); gun is the draw of random.choice(GUNS)
Game_give_random_weapon(w, i, gun) ==
    LET p == w.players[i]
        ent == GunEntity(w.next_id, gun, <<p.x, hand_y(p)>>, GUNS[gun].ammo, FALSE)
    IN [w EXCEPT !.players[i].holding = [ent EXCEPT !.owner = i, !.state = "equipped"],
                 !.next_id = @ + 1]

\* (variant: an agent that has lost health is respawned as well)
down_or_hurt(p) == ~p.alive \/ p.hp < 100
\* line 892: if not p.alive
down(p) == ~p.alive

RECURSIVE respawn_pass_dropping(_, _, _)
\* (variant: the weapon of the dead agent is left on the ground)
respawn_pass_dropping(w, rd, i) ==
    IF i > Len(w.players) THEN w
    ELSE IF ~down(w.players[i]) THEN respawn_pass_dropping(w, rd, i + 1)
    ELSE respawn_pass_dropping(
             Game_give_random_weapon(
                 [w EXCEPT !.players[i] = Player_respawn(@, respawns[rd[i][1]]),
                           !.hist[i] = [@ EXCEPT !.respawned = TRUE, !.born_ago = 0],
                           !.guns = IF w.players[i].holding.gid = 0 THEN @
                                    ELSE Append(@, [w.players[i].holding EXCEPT
                                             !.x = w.players[i].x, !.y = w.players[i].y,
                                             !.owner = 0, !.state = "ground"])],
                 i, rd[i][2]),
             rd, i + 1)

RECURSIVE respawn_pass(_, _, _)
\* lines 891-894; rd[i] = <<spawn point, weapon>> are the draws for agent i
respawn_pass(w, rd, i) ==
    IF i > Len(w.players) THEN w
    ELSE IF ~down(w.players[i]) THEN respawn_pass(w, rd, i + 1)
    ELSE respawn_pass(
             Game_give_random_weapon(
                 [w EXCEPT !.players[i] = Player_respawn(@, respawns[rd[i][1]]),
                           !.hist[i] = [@ EXCEPT !.respawned = TRUE, !.born_ago = 0,
                                                 !.air_life = 0]],
                 i, rd[i][2]),
             rd, i + 1)

\* Game._anti_stuck; stuck_timer is kept in half time units (dt*0.5 is 2.5)
Game_anti_stuck(w) ==
    LET a == w.players[1]
        b == w.players[2]
        dx == b.x - a.x
        dy == center_y(b) - center_y(a)
        dist == hypot(dx, dy)
        push == Scale(P(32) - Max(dist, P(1)), 1, 2)
        s == IF dx >= 0 THEN 1 ELSE -1
    IN IF dist < P(32)
       THEN [w EXCEPT !.stuck_timer = @ + 2 * DT,
                      !.players[1].x = @ - s * push, !.players[2].x = @ + s * push,
                      !.players[1].vx = Scale(@, 1, 2), !.players[2].vx = Scale(@, 1, 2)]
       ELSE [w EXCEPT !.stuck_timer = Max(0, @ - DT)]

\* the history of teleports: time since the last one, per agent
note_teleports(w) ==
    [w EXCEPT !.hist = [i \in DOMAIN w.hist |->
        IF w.upd_ev[i].tp # 0
        THEN [w.hist[i] EXCEPT !.since_tp = 0, !.respawned = FALSE,
                               !.prev_since = w.hist[i].since_tp,
                               !.prev_respawned = w.hist[i].respawned]
        ELSE [w.hist[i] EXCEPT !.since_tp = Min(@ + DT, S100(50))]]]

\* the history of casts and dashes: the time since the agent's last cast of
\* a beam and since its last respawn, each counted up to 0.95 s, and since
\* the start of its last dash, counted up to 0.6 s
note_casts(w) ==
    [w EXCEPT !.hist = [i \in DOMAIN w.hist |->
        [w.hist[i] EXCEPT
            !.cast_ago = IF w.upd_ev[i].cast # {} THEN 0 ELSE Min(@ + DT, S100(95)),
            !.born_ago = Min(@ + DT, S100(95)),
            !.dash_ago = IF w.upd_ev[i].ran /\ w.upd_ev[i].end.dash_time = Timer(13)
                         THEN 0 ELSE Min(@ + DT, S100(60))]]]

\* what the update ev shows of a jump, before any teleport: the vertical
\* velocity of a ground jump or of an air jump, one tick of gravity later,
\* and the buffer empty
GroundJump(ev) ==
    ev.ran /\ ev.moved.vy = A(GRAVITY) - V(1000) /\ ev.moved.jump_buf = 0
AirJump(ev) ==
    /\ ev.ran /\ ev.moved.vy = A(GRAVITY) - V(940) /\ ev.moved.jump_buf = 0
    /\ ev.moved.air_jumps = ev.start.air_jumps - 1

\* the history of jump requests: the time since the agent's last request,
\* counted up to 0.12 s; whether that request is still unserved (owed), and
\* whether it was made in the air, out of coyote time, with no air jump left;
\* the time since the update in which the agent last landed, counted up to
\* 0.08 s, and the ground jumps and air jumps made since, counted up to 3
\* (air_life: the air jumps since the last landing or respawn)
note_jumps(w) ==
    [w EXCEPT !.hist = [i \in DOMAIN w.hist |->
        LET ev == w.upd_ev[i]
            asked == ev.ran /\ ev.keys.jump
            ago == IF asked THEN 0 ELSE Min(w.hist[i].ask_ago + DT, S100(12))
            owed == /\ ~GroundJump(ev) /\ ~AirJump(ev)
                    /\ (asked \/ w.hist[i].owed) /\ ago + DT < S100(12)
        IN [w.hist[i] EXCEPT
               !.aloft = IF ev.landed THEN 0 ELSE Min(@ + DT, S100(8)),
               !.full = IF ev.landed THEN 0 ELSE IF GroundJump(ev) THEN Min(@ + 1, 3) ELSE @,
               !.air = IF ev.landed THEN 0 ELSE IF AirJump(ev) THEN Min(@ + 1, 3) ELSE @,
               !.air_life = IF ev.landed THEN 0
                            ELSE IF AirJump(ev) THEN Min(@ + 1, 3) ELSE @,
               !.ask_ago = ago, !.owed = owed,
               !.bare = owed /\ IF asked
                                THEN /\ ~ev.start.on_ground /\ ev.start.coyote <= DT
                                     /\ ev.start.air_jumps = 0
                                ELSE @]]]

\* the agent t as it is when agent i fires in the players' loop of this tick
at_fire(w, i, t) == IF t < i THEN w.upd_ev[t].end ELSE w.upd_ev[t].start

\* history: the shotgun blast agent i fired in this tick, if any, replaces
\* the one remembered: its pellets, whether every other agent was then
\* vulnerable, how far along the axes the other agent (of two) stood, no
\* hit so far
loaded(w, i) ==
    IF w.upd_ev[i].gun # 0 /\ GUNS[w.upd_ev[i].gun].special = "spread"
    THEN [ids |-> w.upd_ev[i].shot,
          clear |-> \A t \in DOMAIN w.players \ {i} : at_fire(w, i, t).invuln <= 0,
          gap |-> Max(Abs(at_fire(w, i, 3 - i).x - w.upd_ev[i].end.x),
                      Abs(at_fire(w, i, 3 - i).y - w.upd_ev[i].end.y)),
          hits |-> 0, lost |-> 0]
    ELSE w.hist[i].blast

RECURSIVE blast_toll(_, _, _)
\* history: the blast b after the Player.damage calls of the log from entry
\* k on: the calls made by its pellets and the health they took
blast_toll(log, b, k) ==
    IF k > Len(log) THEN b
    ELSE blast_toll(log,
                    IF log[k].src[1] = "bullet" /\ log[k].src[2] \in b.ids
                    THEN [b EXCEPT !.hits = @ + 1,
                                   !.lost = @ + log[k].pre[log[k].tgt].hp
                                              - log[k].post[log[k].tgt].hp]
                    ELSE b,
                    k + 1)

note_blasts(w) ==
    [w EXCEPT !.hist = [i \in DOMAIN w.hist |->
        [w.hist[i] EXCEPT !.blast = blast_toll(w.dmg_log, loaded(w, i), 1)]]]

\* the Player.damage calls of the log that took health from agent t
Hurts(log, t) ==
    {k \in 1..Len(log) : log[k].tgt = t /\ log[k].post[t].hp < log[k].pre[t].hp}

\* the history of hits: the time since agent i last lost health, counted up
\* to 0.4 s; where it was, and which way the knockback pointed, when a
\* bullet last hit it without killing it (knock 0: no such hit in the last
\* 0.4 s), and whether it has touched neither left, right nor dash since
hit_noted(w, i, ks) ==
    LET h == w.hist[i]
        k == CHOOSE j \in ks : TRUE
        byBullet == ks # {} /\ w.dmg_log[k].src[1] = "bullet" /\ w.dmg_log[k].post[i].alive
        ago == IF ks # {} THEN 0 ELSE Min(h.hurt_ago + DT, S100(40))
        calm == ~w.upd_ev[i].keys.left /\ ~w.upd_ev[i].keys.right /\ ~w.upd_ev[i].keys.dash
    IN IF byBullet
       THEN [h EXCEPT !.hurt_ago = 0, !.hit_x = w.dmg_log[k].post[i].x, !.still = TRUE,
                      !.knock = Sgn(w.dmg_log[k].post[i].vx - w.dmg_log[k].pre[i].vx)]
       ELSE IF ks # {} \/ ago >= S100(40)
       THEN [h EXCEPT !.hurt_ago = ago, !.hit_x = 0, !.still = FALSE, !.knock = 0]
       ELSE [h EXCEPT !.hurt_ago = ago, !.still = @ /\ calm]

note_hits(w) ==
    [w EXCEPT !.hist = [i \in DOMAIN w.hist |-> hit_noted(w, i, Hurts(w.dmg_log, i))]]

\* line 826 (history: the logs of the tick start empty)
clock(w) == [w EXCEPT !.time_left = Max(0, @ - DT), !.dmg_log = <<>>, !.bul_log = <<>>]

\* (variant: the pickups that stay are advanced a second time)
all_guns_twice(w) ==
    [w EXCEPT !.guns = guns_pass(guns_pass(w.guns, w.guns), guns_pass(w.guns, w.guns))]
\* lines 861-865, 868-872, 875-877: each loop runs over the list as it is
\* when the loop starts
all_guns(w) == [w EXCEPT !.guns = guns_pass(w.guns, w.guns)]
all_bullets(w) == bullets_pass(w, w.bullets)
all_beams(w) == beams_pass(w, w.beams)

\* Game.update up to the respawns: clock, spawn cadence, agents, pickups,
\* bullets, beams (lines 824-888)
Game_advance(w, ctl, sd) ==
    note_hits(note_blasts(all_beams(all_bullets(all_guns(note_jumps(note_casts(
        note_teleports(players_pass(spawn_cadence(clock(w), sd), ctl)))))))))

\* Game.update, the rest: respawns and anti-overlap separation (lines 890-897)
Game_finish(w, rd) == Game_anti_stuck(respawn_pass(w, rd, 1))

---------------------------------------------------------------------------
(* GameEnv.step                                                            *)
\* lines 1210-1211 and 1262-1265: the outcomes of a step, from the agents
\* before Game.update (pre) and after it (post); YOU is players[0], BOT
\* players[1] of the source
GameEnv_outcomes(pre, post) ==
    [dmg_dealt |-> Max(0, pre[2].hp - post[2].hp),
     dmg_taken |-> Max(0, pre[1].hp - post[1].hp),
     kos_you |-> post[1].kos - pre[1].kos,
     kos_bot |-> post[2].kos - pre[2].kos]

---------------------------------------------------------------------------
(* The state machine                                                       *)
World ==
    [players |-> players, bullets |-> bullets, beams |-> beams, guns |-> guns,
     time_left |-> time_left, spawn_timer |-> spawn_timer,
     spawn_interval |-> spawn_interval, stuck_timer |-> stuck_timer,
     jump_cd |-> jump_cd,
     next_id |-> next_id, dmg_log |-> dmg_log, upd_ev |-> upd_ev,
     bul_log |-> bul_log, spent |-> spent, hist |-> hist]

Commit(w) ==
    /\ players' = w.players
    /\ bullets' = w.bullets
    /\ beams' = w.beams
    /\ guns' = w.guns
    /\ time_left' = w.time_left
    /\ spawn_timer' = w.spawn_timer
    /\ spawn_interval' = w.spawn_interval
    /\ stuck_timer' = w.stuck_timer
    /\ jump_cd' = w.jump_cd
    /\ next_id' = w.next_id
    /\ dmg_log' = w.dmg_log
    /\ upd_ev' = w.upd_ev
    /\ bul_log' = w.bul_log
    /\ spent' = w.spent
    /\ hist' = w.hist

\* bounds of the random draws
JitterPatterns == 2
SpawnGrid == 2

\* the jitter draws of one shot: constant patterns and fans over -2..2
JitterDraws(p, attacks, picks) ==
    IF attacks /\ (picks \/ (p.holding.gid # 0
                             /\ GUNS[p.holding.gdef].special \in {"spread", "burst3"}))
    THEN {[j \in 1..7 |-> ((j * a + b) % 5) - 2] : a \in 0..(JitterPatterns - 1), b \in 0..4}
    ELSE {[j \in 1..7 |-> 0]}

\* the draws of Game.spawn_gun, when the cadence fires this tick
SpawnDraws ==
    IF spawn_timer - DT <= 0 /\ Len(guns) < MAX_GUNS
    THEN {[surf |-> k, den |-> SpawnGrid,
           xs |-> [j \in 1..9 |-> (f + (j - 1) * st) % (SpawnGrid + 1)],
           gun |-> g, dammo |-> da] :
             k \in 1..Len(spawnable_surfaces), f \in 0..SpawnGrid, st \in 0..1,
             g \in 1..Len(GUNS), da \in -2..2}
    ELSE {[surf |-> 1, den |-> SpawnGrid, xs |-> [j \in 1..9 |-> 0], gun |-> 1, dammo |-> 0]}

\* the draws of the respawns: a spawn point and a weapon per dead agent
RespawnDraws(w) ==
    LET S(i) == IF w.players[i].alive THEN {<<1, 1>>}
                ELSE (1..Len(respawns)) \X (1..Len(GUNS))
    IN {<<a, b>> : a \in S(1), b \in S(2)}

\* one Game.update(1/FPS): YOU plays inp; the bot's random tests come out
\* as some member of jumps and of attacks
Tick(inp, jumps, attacks) ==
    \E j \in jumps, a \in attacks,
       j1 \in JitterDraws(players[1], inp.attack, inp.rmb_release),
       sd \in SpawnDraws :
        \E j2 \in JitterDraws(players[2], a, FALSE) :
            \E wa \in {Game_advance(World, [you |-> inp, jumps |-> j, attacks |-> a,
                                             jit |-> <<j1, j2>>], sd)} :
                \E rd \in RespawnDraws(wa) :
                    \E wf \in {Game_finish(wa, rd)} : Commit(wf)

NoAim == <<>>
Idle == Inputs(FALSE, FALSE, FALSE, FALSE, FALSE, FALSE, FALSE, NoAim)

\* an agent standing on the rectangle it is over, as Player.update leaves it
Standing(x, y, gun, ammo, gid, hp) ==
    [Player(x, y) EXCEPT !.on_ground = TRUE, !.coyote = Timer(8), !.hp = hp,
        !.holding = [GunEntity(gid, gun, <<x, y>>, ammo, FALSE) EXCEPT
                        !.owner = 1, !.state = "equipped"]]

NoEvent(p) ==
    Event(p, p, FALSE, FALSE, p.y, FALSE, <<>>, p, 0, 0)
    @@ [aimed |-> TRUE, gun |-> 0, shot |-> {}, cast |-> {}, took |-> {}, threw |-> {},
        keys |-> [left |-> FALSE, right |-> FALSE, dash |-> FALSE, jump |-> FALSE,
                  rmb |-> FALSE]]
NoHist == [since_tp |-> S100(50), respawned |-> FALSE,
           cast_ago |-> S100(95), born_ago |-> S100(95), dash_ago |-> S100(60),
           ask_ago |-> S100(12), owed |-> FALSE, bare |-> FALSE,
           aloft |-> 0, full |-> 0, air |-> 0, air_life |-> 0,
           hurt_ago |-> S100(40), hit_x |-> 0, knock |-> 0, still |-> FALSE,
           prev_since |-> S100(50), prev_respawned |-> FALSE,
           blast |-> [ids |-> {}, clear |-> FALSE, gap |-> 0, hits |-> 0, lost |-> 0]]

\* a state in mid-match: the agents ps, nothing in flight, the pickups gs
\* around, nid the next identity
Scene(ps, t, gs, nid) ==
    /\ players = ps
    /\ bullets = <<>>
    /\ beams = <<>>
    /\ guns = gs
    /\ time_left = t
    /\ spawn_interval = S100(SPAWN_INTERVAL_START)
    /\ spawn_timer = S100(SPAWN_INTERVAL_START)
    /\ stuck_timer = 0
    /\ jump_cd = 0
    /\ next_id = nid
    /\ dmg_log = <<>>
    /\ bul_log = <<>>
    /\ spent = {}
    /\ upd_ev = [i \in DOMAIN ps |-> NoEvent(ps[i])]
    /\ hist = [i \in DOMAIN ps |-> NoHist]

\* a state in mid-match with no pickup around
MidMatch(ps, t) == Scene(ps, t, <<>>, 10)

---------------------------------------------------------------------------
(* Duel: the two agents face each other on the main floor.  YOU holds any  *)
(* weapon of the catalog with little ammunition and shoots at the bot; the *)
(* bot holds a pistol with one round.                                      *)
MaxTicks == 24
DuelGap == 2
DuelAmmo == 2
DuelHold == 2
T0 == S100(10000)
Elapsed == (T0 - time_left) \div DT

AimAt(q) == <<q.x, q.y - P(40)>>
FireAt(q) == Inputs(FALSE, FALSE, FALSE, FALSE, TRUE, FALSE, FALSE, AimAt(q))

Init ==
    \E g \in 1..Len(GUNS), a \in 1..DuelAmmo, gap \in 1..DuelGap :
        MidMatch(<< Standing(P(500), floor_y, g, a, 1, 100),
                    [Standing(P(334 + 200 * gap), floor_y, 1, 1, 2, 100) EXCEPT
                        !.holding.owner = 2, !.face = -1] >>, T0)

\* Each side holds its fire for at most DuelHold ticks, then pulls the
\* trigger every tick
Duel ==
    /\ Elapsed < MaxTicks
    /\ \E in1 \in {FireAt(players[2])} \cup (IF Elapsed < DuelHold THEN {Idle} ELSE {}) :
           Tick(in1, {FALSE}, {TRUE} \cup (IF Elapsed < DuelHold THEN {FALSE} ELSE {}))

Next == Duel

Spec == Init /\ [][Next]_vars

---------------------------------------------------------------------------
(* Beam: YOU stands on the floor under the left spawn point with a laser;  *)
(* the bot stands on the THIN platform straight above, in the line of fire *)
BeamTicks == 40

BeamInit ==
    \E hp \in {70, 100} :
        MidMatch(<< Standing(respawns[1][1], floor_y, Len(GUNS), 2, 1, 100),
                    [Standing(respawns[1][1], top(build_level[4].r), 1, 1, 2, hp) EXCEPT
                        !.holding.owner = 2, !.face = -1] >>, T0)

BeamDuel ==
    /\ Elapsed < BeamTicks
    /\ \E in1 \in {Idle, FireAt(players[2])} : Tick(in1, {FALSE}, {FALSE})

BeamNext == BeamDuel

SpecBeam == BeamInit /\ [][BeamNext]_vars

---------------------------------------------------------------------------
(* Climb: YOU stands on the lowest THIN platform, under the next one, and  *)
(* jumps, double-jumps and drops through; the bot waits unarmed far away.  *)
MoveTicks == 41
MoveBeat == 7

MoveInit ==
    MidMatch(<< Standing(P(500), top(build_level[4].r), 1, 3, 1, 100),
                [Player(P(2000), floor_y) EXCEPT !.on_ground = TRUE,
                                                  !.coyote = Timer(8), !.face = -1] >>, T0)

Jump == Inputs(FALSE, FALSE, FALSE, TRUE, FALSE, FALSE, FALSE, NoAim)
Drop == Inputs(FALSE, FALSE, TRUE, FALSE, FALSE, FALSE, FALSE, NoAim)

\* YOU touches the controls on every MoveBeat-th tick only
Climb ==
    /\ Elapsed < MoveTicks
    /\ \E in1 \in {Idle} \cup (IF Elapsed % MoveBeat = 0 THEN {Jump, Drop} ELSE {}) :
           Tick(in1, {FALSE}, {FALSE})

MoveNext == Climb

SpecMove == MoveInit /\ [][MoveNext]_vars

---------------------------------------------------------------------------
(* Shove: the bot stands armed near the right wall, where it stopped when  *)
(* YOU was within 100 of it; YOU walks into it from the left.              *)
ShoveTicks == 32

ShoveInit ==
    MidMatch(<< Standing(P(2200), floor_y, 1, 3, 1, 100),
                [Standing(P(2245), floor_y, 1, 3, 2, 100) EXCEPT
                    !.holding.owner = 2, !.face = -1] >>, T0)

Right == Inputs(FALSE, TRUE, FALSE, FALSE, FALSE, FALSE, FALSE, NoAim)
Left == Inputs(TRUE, FALSE, FALSE, FALSE, FALSE, FALSE, FALSE, NoAim)

Shove ==
    /\ Elapsed < ShoveTicks
    /\ \E in1 \in {Idle, Right} : Tick(in1, {FALSE}, {FALSE})

ShoveNext == Shove

SpecShove == ShoveInit /\ [][ShoveNext]_vars

---------------------------------------------------------------------------
(* Portal: YOU, down to 10 health and holding a rocket launcher, stands on *)
(* the floor just left of teleporter c; the bot waits unarmed far away.    *)
TeleTicks == 34
TeleHold == 2
TeleBeat == 5

TeleInit ==
    MidMatch(<< Standing(P(1170), floor_y, 6, 2, 1, 10),
                [Player(P(400), floor_y) EXCEPT !.on_ground = TRUE,
                                                 !.coyote = Timer(8)] >>, T0)

\* a shot at the ground ahead
FireDown(p) ==
    Inputs(FALSE, FALSE, FALSE, FALSE, TRUE, FALSE, FALSE, <<p.x + P(40), p.y + P(200)>>)

\* YOU walks during the first TeleHold ticks, and after them steps left or
\* shoots on every TeleBeat-th tick
Portal ==
    /\ Elapsed < TeleTicks
    /\ \E in1 \in {Idle} \cup (IF Elapsed < TeleHold THEN {Right} ELSE {})
                  \cup (IF Elapsed % TeleBeat = 1 THEN {Left, FireDown(players[1])} ELSE {}) :
           Tick(in1, {FALSE}, {FALSE})

TeleNext == Portal

SpecTele == TeleInit /\ [][TeleNext]_vars

---------------------------------------------------------------------------
(* Roof: the two agents stand 50 apart on the highest THIN platform, under *)
(* the right spawn point.  YOU holds any weapon of the catalog with its    *)
(* full ammunition and fires at the bot or straight up, later once more    *)
(* without an aim point; the bot, in full or poor health, holds its fire.  *)
RoofTicks == 20
RoofBeat == 17

RoofInit ==
    \E g \in 1..Len(GUNS), hp \in {10, 100} :
        MidMatch(<< Standing(respawns[2][1], top(build_level[10].r), g, GUNS[g].ammo, 1, 100),
                    [Standing(respawns[2][1] + P(50), top(build_level[10].r), 1, 1, 2, hp)
                        EXCEPT !.holding.owner = 2, !.face = -1] >>, T0)

\* a shot straight up
FireUp(p) == Inputs(FALSE, FALSE, FALSE, FALSE, TRUE, FALSE, FALSE, <<p.x, p.y - P(400)>>)
\* the trigger pulled, no aim point given
Fire == Inputs(FALSE, FALSE, FALSE, FALSE, TRUE, FALSE, FALSE, NoAim)

RoofPlays ==
    IF Elapsed = 0 THEN {FireAt(players[2]), FireUp(players[1])}
    ELSE {Idle} \cup (IF Elapsed % RoofBeat = 0 THEN {Fire} ELSE {})

Roof ==
    /\ Elapsed < RoofTicks
    /\ \E in1 \in RoofPlays : Tick(in1, {FALSE}, {FALSE})

SpecRoof == RoofInit /\ [][Roof]_vars

---------------------------------------------------------------------------
(* Rest: YOU stands idle on the main floor for five seconds, under the     *)
(* solid block or beside it.  The bot, armed, stands on the block above or *)
(* on the floor to the right, and shoots at YOU now and then.  The arena   *)
(* holds all the pickups it can, so that no new one is spawned.            *)
RestTicks == 300
RestBeat == 100
Pickups ==
    [k \in 1..MAX_GUNS |->
        IF k <= 6
        THEN GunEntity(20 + k, 1, <<P(460 + 60 * k), top(build_level[7].r) - P(24)>>,
                       GUNS[1].ammo, TRUE)
        ELSE GunEntity(20 + k, 1, <<P(880 + 60 * k), top(build_level[8].r) - P(24)>>,
                       GUNS[1].ammo, TRUE)]

RestInit ==
    \E x \in {P(1000), P(1100), P(1300)}, above \in BOOLEAN :
        Scene(<< Standing(x, floor_y, 1, GUNS[1].ammo, 1, 100),
                 [Standing(IF above THEN x + P(50) ELSE x + P(320),
                           IF above THEN top(build_level[5].r) ELSE floor_y,
                           1, GUNS[1].ammo, 2, 100)
                     EXCEPT !.holding.owner = 2, !.face = -1] >>,
              T0, Pickups, 40)

Rest ==
    /\ Elapsed < RestTicks
    /\ Tick(Idle, {FALSE},
            {FALSE} \cup (IF Elapsed % RestBeat = RestBeat - 1 THEN {TRUE} ELSE {}))

SpecRest == RestInit /\ [][Rest]_vars

---------------------------------------------------------------------------
(* Stock: a pickup has just been spawned, any weapon with any of its       *)
(* randomized ammo counts, in the middle of the long platform on the left, *)
(* where YOU stands unarmed.  YOU picks it up and shoots at its feet until *)
(* it is empty; the bot, armed, comes along on the floor and does not      *)
(* shoot.                                                                  *)
StockTicks == 75
StockInit ==
    \E g \in 1..Len(GUNS), da \in -2..2 :
        Scene(<< [Standing(build_level[7].r.x + build_level[7].r.w \div 2,
                           top(build_level[7].r), 1, 1, 1, 100) EXCEPT !.holding = None],
                 [Standing(P(1000), floor_y, 1, GUNS[1].ammo, 2, 100)
                     EXCEPT !.holding.owner = 2, !.face = -1] >>,
              T0,
              Game_spawn_gun([guns |-> <<>>, next_id |-> 10],
                             [surf |-> CHOOSE k \in 1..Len(spawnable_surfaces) :
                                           spawnable_surfaces[k] = build_level[7],
                              den |-> SpawnGrid,
                              xs |-> [j \in 1..9 |-> SpawnGrid \div 2],
                              gun |-> g, dammo |-> da]).guns,
              11)

Stock ==
    /\ Elapsed < StockTicks
    /\ \E in1 \in {IF Elapsed = 0
                    THEN Inputs(FALSE, FALSE, FALSE, FALSE, FALSE, TRUE, FALSE,
                                <<players[1].x, players[1].y - P(400)>>)
                    ELSE Inputs(FALSE, FALSE, FALSE, FALSE, TRUE, FALSE, FALSE,
                                <<players[1].x, players[1].y + P(400)>>)} :
           Tick(in1, {FALSE}, {FALSE})

SpecStock == StockInit /\ [][Stock]_vars

---------------------------------------------------------------------------
(* Ledge: as in Shove, YOU walks into the bot near the right wall; here    *)
(* YOU keeps walking and may shoot the bot with its pistol on the way.     *)
LedgeTicks == 40
RightFire(q) == Inputs(FALSE, TRUE, FALSE, FALSE, TRUE, FALSE, FALSE, AimAt(q))
Ledge ==
    /\ Elapsed < LedgeTicks
    /\ \E in1 \in {Right, RightFire(players[2])} : Tick(in1, {FALSE}, {FALSE})

SpecLedge == ShoveInit /\ [][Ledge]_vars

---------------------------------------------------------------------------
(* Toss: as in Stock, YOU picks up the pickup just spawned and shoots at   *)
(* its feet; at one moment it may throw the weapon up in the air instead.  *)
SlabTicks == 60

\* the agent p as Player.respawn(pos) and give_random_weapon leave it, with
\* the weapon p had
Fresh(p, pos) == [Player_respawn(p, pos) EXCEPT !.holding = p.holding]

\* YOU with the laser and the bot: YOU on the floor and the bot on the
\* central SOLID platform straight above it, or YOU on the lowest THIN
\* platform and the bot just respawned at the first spawn point, from where
\* it falls to that platform 100 units to the right of YOU
SlabX == P(seg * 2 + 140)

SlabInit ==
    \E ps \in {<< Standing(SlabX, floor_y, Len(GUNS), 2, 1, 100),
                  Standing(SlabX, top(build_level[5].r), 1, 1, 2, 100) >>,
               << Standing(respawns[1][1] - P(100), top(build_level[4].r), Len(GUNS), 2, 1, 100),
                  Fresh(Standing(respawns[1][1], floor_y, 1, 1, 2, 100), respawns[1]) >>} :
        MidMatch(<< ps[1], [ps[2] EXCEPT !.holding.owner = 2, !.face = -1] >>, T0)

\* a shot straight ahead, to the right
FireLevel(p) ==
    Inputs(FALSE, FALSE, FALSE, FALSE, TRUE, FALSE, FALSE, <<p.x + P(400), hand_y(p)>>)

\* YOU fires straight up from the floor and level from the platform
Slab ==
    /\ Elapsed < SlabTicks
    /\ \E in1 \in {Idle, IF players[1].y = floor_y THEN FireUp(players[1])
                         ELSE FireLevel(players[1])} :
           Tick(in1, {FALSE}, {FALSE})

SpecSlab == SlabInit /\ [][Slab]_vars

StunTicks == 30

\* the bot, 100 units to the right, shoots YOU in the first tick; YOU
\* touches the controls only in the updates its hitlag freezes
StunInit ==
    \E hp \in {60, 100} :
        MidMatch(<< Standing(P(500), floor_y, 1, 3, 1, hp),
                    [Standing(P(600), floor_y, 1, 1, 2, 100) EXCEPT
                        !.holding.owner = 2, !.face = -1] >>, T0)

DashRight == Inputs(FALSE, TRUE, FALSE, FALSE, FALSE, FALSE, TRUE, NoAim)

Stun ==
    /\ Elapsed < StunTicks
    /\ \E in1 \in {Idle} \cup (IF players[1].hitlag > DT
                               THEN {Right, Jump, Drop, DashRight, FireAt(players[2])}
                               ELSE {}) :
           Tick(in1, {FALSE}, {Elapsed = 0})

SpecStun == StunInit /\ [][Stun]_vars

RecastTicks == 20
RecastBeat == 6

\* YOU holds the laser, the bot, 100 units to the right, shoots it in the
\* first tick; YOU pulls the trigger on every RecastBeat-th tick or not
RecastInit ==
    \E hp \in {10, 100} :
        MidMatch(<< Standing(P(500), floor_y, Len(GUNS), 2, 1, hp),
                    [Standing(P(600), floor_y, 1, 1, 2, 100) EXCEPT
                        !.holding.owner = 2, !.face = -1] >>, T0)

Recast ==
    /\ Elapsed < RecastTicks
    /\ \E in1 \in {Idle} \cup (IF Elapsed % RecastBeat = 0
                               THEN {FireDown(players[1])} ELSE {}) :
           Tick(in1, {FALSE}, {Elapsed = 0})

SpecRecast == RecastInit /\ [][Recast]_vars

CadenceTicks == 5
CadenceLead == 2

RECURSIVE Shrink(_, _)
\* line 833, n times
Shrink(iv, n) ==
    IF n = 0 THEN iv ELSE Shrink(Max(S100(SPAWN_MIN), Scale(iv, 96, 100)), n - 1)

\* the spawn interval after n spawns
Shrunk(n) == Shrink(S100(SPAWN_INTERVAL_START), n)

\* later in a match (120 s): after MAX_GUNS spawns with 80 s left, or with
\* the interval at its floor and 40 s left; all the pickups lie on the
\* ground, or YOU has picked up the last one; the spawn timer elapses in the
\* tick after the next CadenceLead - 1 ticks; both agents stand idle
CadenceInit ==
    \E full, late \in BOOLEAN :
        /\ players = << [Standing(P(1000), floor_y, 1, GUNS[1].ammo, 1, 100) EXCEPT
                            !.holding = IF full THEN @
                                        ELSE [Pickups[MAX_GUNS] EXCEPT
                                                 !.owner = 1, !.state = "equipped"]],
                        [Standing(P(1060), floor_y, 1, GUNS[1].ammo, 2, 100)
                            EXCEPT !.holding.owner = 2, !.face = -1] >>
        /\ bullets = <<>>
        /\ beams = <<>>
        /\ guns = (IF full THEN Pickups ELSE SubSeq(Pickups, 1, MAX_GUNS - 1))
        /\ time_left = (IF late THEN S100(4000) ELSE S100(8000))
        /\ spawn_interval = (IF late THEN S100(SPAWN_MIN) ELSE Shrunk(MAX_GUNS))
        /\ spawn_timer = CadenceLead * DT
        /\ stuck_timer = 0
        /\ jump_cd = 0
        /\ next_id = 40
        /\ dmg_log = <<>>
        /\ bul_log = <<>>
        /\ spent = {}
        /\ upd_ev = [i \in DOMAIN players |-> NoEvent(players[i])]
        /\ hist = [i \in DOMAIN players |-> NoHist]

\* the ticks since CadenceInit
CadenceElapsed ==
    ((IF time_left > S100(6000) THEN S100(8000) ELSE S100(4000)) - time_left) \div DT

Cadence ==
    /\ CadenceElapsed < CadenceTicks
    /\ Tick(Idle, {FALSE}, {FALSE})

SpecCadence == CadenceInit /\ [][Cadence]_vars

RangeTicks == 76
RangeHold == 3

\* YOU on the floor at 1700, under the open sky but for a THIN platform, with
\* one round of any weapon of the catalog; the bot stands unarmed far to the
\* left
RangeInit ==
    \E g \in 1..Len(GUNS) :
        MidMatch(<< Standing(P(1700), floor_y, g, 1, 1, 100),
                    [Standing(P(300), floor_y, 1, 1, 2, 100) EXCEPT
                        !.holding = None] >>, T0)

\* YOU fires straight up in one of the first RangeHold ticks, or never
Range ==
    /\ Elapsed < RangeTicks
    /\ \E in1 \in {Idle} \cup (IF Elapsed < RangeHold THEN {FireUp(players[1])} ELSE {}) :
           Tick(in1, {FALSE}, {FALSE})

SpecRange == RangeInit /\ [][Range]_vars

FlingTicks == 24
FlingRun == 2
FlingBeat == 6

\* YOU on the floor at 1700 with a pistol, a spawned pistol lying 40 units
\* to its right, the bot unarmed 60 units further on
FlingInit ==
    Scene(<< Standing(P(1700), floor_y, 1, 3, 1, 100),
             [Standing(P(1800), floor_y, 1, 1, 2, 100) EXCEPT
                 !.holding = None, !.face = -1] >>,
          T0, << GunEntity(20, 1, <<P(1740), floor_y - P(24)>>, GUNS[1].ammo, TRUE) >>, 40)

\* the secondary action released with the pointer at (dx, dy) from the agent
Release(p, dx, dy) ==
    Inputs(FALSE, FALSE, FALSE, FALSE, FALSE, TRUE, FALSE, <<p.x + dx, p.y + dy>>)

\* YOU releases the secondary action or not in each of the first FlingRun
\* ticks and in every FlingBeat-th tick, with the pointer overhead, level
\* to the right (at the bot) or at its feet to the left; the play goes on
\* until the weapons thrown are gone
FlingOn == Elapsed < FlingTicks \/ \E k \in 1..Len(guns) : guns[k].state = "tossed"

Fling ==
    /\ FlingOn
    /\ \E in1 \in {Idle} \cup
                  (IF Elapsed < FlingTicks /\ (Elapsed < FlingRun \/ Elapsed % FlingBeat = 0)
                   THEN {Release(players[1], 0, -P(400)),
                         Release(players[1], P(400), -(P(PH) * 6) \div 10),
                         Release(players[1], -P(40), 0)}
                   ELSE {}) :
           Tick(in1, {FALSE}, {FALSE})

\* The game loop calls Game.update again and again: weak fairness of Fling,
\* WF_vars(Fling), with ENABLED <<Fling>>_vars written out as FlingOn (a
\* tick is always possible and moves the clock)
FlingFair == []<><<Fling>>_vars \/ <>[]~FlingOn

SpecFling == FlingInit /\ [][Fling]_vars /\ FlingFair

SiegeTicks == 60

\* the two agents 50 apart on the highest THIN platform, under the right
\* spawn point, as in Roof; YOU holds a shotgun, a rifle, a rocket launcher
\* or a laser with its full ammunition, the bot is in full or poor health
SiegeInit ==
    \E g \in {3, 4, 6, 7}, hp \in {10, 100} :
        MidMatch(<< Standing(respawns[2][1], top(build_level[10].r), g, GUNS[g].ammo, 1, 100),
                    [Standing(respawns[2][1] + P(50), top(build_level[10].r), 1, 1, 2, hp)
                        EXCEPT !.holding.owner = 2, !.face = -1] >>, T0)

\* YOU keeps the trigger pulled, aiming at the bot wherever it is; the bot
\* holds its fire
Siege ==
    /\ Elapsed < SiegeTicks
    /\ Tick(FireAt(players[2]), {FALSE}, {FALSE})

SpecSiege == SiegeInit /\ [][Siege]_vars

FeudTicks == 16
FeudBeat == 4
FeudAfter == 2

\* YOU on the floor at 800 with a rocket launcher, the bot 100 units to its
\* left with a pistol, both with little health
FeudInit ==
    MidMatch(<< Standing(P(800), floor_y, 6, 2, 1, 10),
                [Standing(P(700), floor_y, 1, 2, 2, 10) EXCEPT
                    !.holding.owner = 2] >>, T0)

\* on every FeudBeat-th tick YOU waits, fires at the ground ahead or fires
\* at the bot, and the bot fires or not; the play goes on for FeudAfter
\* ticks after a respawn
Feud ==
    /\ Elapsed < FeudTicks
    /\ \A i \in 1..2 : hist[i].born_ago >= S100(95) \/ hist[i].born_ago < FeudAfter * DT
    /\ \E in1 \in {Idle} \cup (IF Elapsed % FeudBeat = 0
                               THEN {FireDown(players[1]), FireAt(players[2])}
                               ELSE {}) :
           Tick(in1, {FALSE}, {FALSE} \cup (IF Elapsed % FeudBeat = 0 THEN {TRUE} ELSE {}))

SpecFeud == FeudInit /\ [][Feud]_vars

HopTicks == 66
HopRun == 2
HopBeat == 5
HopShot == 10
HopAfter == 3

\* YOU on the floor at 800, clear of platforms within reach, of updrafts
\* and of teleporters, with little health; the bot 100 units to its left
\* with one round
HopInit ==
    MidMatch(<< Standing(P(800), floor_y, 1, 3, 1, 10),
                [Standing(P(700), floor_y, 1, 1, 2, 100) EXCEPT
                    !.holding.owner = 2] >>, T0)

\* YOU presses jump or not in each of the first HopRun ticks and in every
\* HopBeat-th tick; the bot fires in a HopShot-th tick or never; the play
\* goes on for HopAfter ticks after a respawn of YOU
Hop ==
    /\ Elapsed < HopTicks
    /\ hist[1].born_ago >= S100(95) \/ hist[1].born_ago < HopAfter * DT
    /\ \E in1 \in {Idle} \cup (IF Elapsed < HopRun \/ Elapsed % HopBeat = 0
                               THEN {Jump} ELSE {}) :
           Tick(in1, {FALSE}, {FALSE} \cup (IF Elapsed % HopShot = 0 THEN {TRUE} ELSE {}))

SpecHop == HopInit /\ [][Hop]_vars

DartTicks == 44
DartBeat == 4

\* YOU at 700 on the floor, the bot 100 units to its right shoots it in the
\* first tick; YOU holds the left key all the time and, on every DartBeat-th
\* tick, presses dash with it or not
DartInit ==
    \E hp \in {10, 100} :
        MidMatch(<< Standing(P(700), floor_y, 1, 3, 1, hp),
                    [Standing(P(800), floor_y, 1, 1, 2, 100) EXCEPT
                        !.holding.owner = 2, !.face = -1] >>, T0)

DashLeft == Inputs(TRUE, FALSE, FALSE, FALSE, FALSE, FALSE, TRUE, NoAim)

Dart ==
    /\ Elapsed < DartTicks
    /\ \E in1 \in {Left} \cup (IF Elapsed % DartBeat = 0 THEN {DashLeft} ELSE {}) :
           Tick(in1, {FALSE}, {Elapsed = 0})

SpecDart == DartInit /\ [][Dart]_vars

TossTicks == 70
TossBeat == 8
Toss ==
    /\ Elapsed < TossTicks
    /\ \E in1 \in {Inputs(FALSE, FALSE, FALSE, FALSE, Elapsed # 0, Elapsed = 0, FALSE,
                           <<players[1].x, players[1].y + P(400)>>)}
                   \cup (IF Elapsed = TossBeat
                         THEN {Inputs(FALSE, FALSE, FALSE, FALSE, FALSE, TRUE, FALSE,
                                      <<players[1].x + P(40), players[1].y - P(400)>>)}
                         ELSE {}) :
           Tick(in1, {FALSE}, {FALSE})

SpecToss == StockInit /\ [][Toss]_vars

---------------------------------------------------------------------------
(* Claims                                                                  *)
Logged(log) == {log[k] : k \in 1..Len(log)}
Agents == DOMAIN players

\* every Player.damage this state's tick made on an invulnerable agent
Shielded == {e \in Logged(dmg_log) : e.pre[e.tgt].invuln > 0}

\* C1: Player.damage on an agent whose invulnerability timer is positive
\* changes nothing: the health, velocity, timers, alive flag and death count
\* of the target and the KO count of the attacker are as before, whatever the
\* amount (ring-out damage of 999 included) and whoever the attacker.
C1_InvulnerableNoOp ==
    /\ \A e \in Shielded : e.post = e.pre
    /\ \A t \in Agents, att \in {0} \cup Agents, amount \in {1, 18, 70, 999} :
           players[t].invuln > 0 =>
               Player_damage(World, t, amount, <<V(200), -V(120)>>, att,
                             <<"ring", 0>>).players = players

C1_Witness ==
    \E e \in Shielded : e.amt > 0 /\ e.att # 0 /\ e.att # e.tgt

\* C3: a rocket (proximity radius 160) explodes in the first tick in which,
\* after its move, the centre of a living agent other than its owner is within
\* the radius; it leaves the list of bullets in that same tick, deals no
\* direct hit even when its box overlaps that agent, splashes each agent at
\* most once, and is never updated (so never explodes or damages) again.
C3_RocketExplodesOnce ==
    /\ \A e \in Logged(bul_log) :
           /\ ~e.again
           /\ (e.rocket /\ e.near # {}) =>
                  /\ e.why = "proximity"
                  /\ ~e.alive
                  /\ e.id \in spent
                  /\ \A d \in Logged(dmg_log) : d.src # <<"bullet", e.id>>
                  /\ \A t \in Agents :
                         Cardinality({k \in 1..Len(dmg_log) :
                             dmg_log[k].src = <<"splash", e.id>> /\ dmg_log[k].tgt = t}) <= 1
    /\ \A k \in 1..Len(bullets) : bullets[k].id \notin spent
    /\ \A d \in Logged(dmg_log) :
           d.src[1] \in {"bullet", "splash"} =>
               \E e \in Logged(bul_log) : e.id = d.src[2] /\ ~e.alive

C3_Witness ==
    \E e \in Logged(bul_log) :
        /\ e.rocket /\ e.near # {} /\ e.touch # {}
        /\ \E d \in Logged(dmg_log) : d.src = <<"splash", e.id>> /\ d.post # d.pre

\* a projectile's damage to its own owner
OwnGoal(e) == e.src[1] \in {"bullet", "splash"} /\ e.tgt = e.att

\* C4 as stated: no projectile ever reduces the health of its owner, by a
\* direct hit, a proximity detonation or splash.
C4_Original ==
    \A e \in Logged(dmg_log) : OwnGoal(e) => e.post[e.tgt].hp >= e.pre[e.tgt].hp

\* C4, amended: a projectile never hits its owner directly and is never
\* detonated by the proximity of its owner; only the splash of an explosion
\* reaches every living agent within 180 of it, the owner included.
C4_OwnerOnlySplashed ==
    /\ \A e \in Logged(dmg_log) : OwnGoal(e) => e.src[1] = "splash"
    /\ \A e \in Logged(bul_log) : e.why = "proximity" => e.near # {}
    /\ \A e \in Logged(bul_log) : e.why = "hit" => e.touch # {}

C4_Witness ==
    /\ \E e \in Logged(dmg_log) : OwnGoal(e) /\ e.post[e.tgt].hp = e.pre[e.tgt].hp - 18
    /\ \E e \in Logged(bul_log) : e.why = "proximity"

\* C5: when an agent fires a held weapon whose ammunition is exactly 1, it
\* holds no weapon at the end of that Player.update; this for every weapon of
\* the catalog, the beam included.
C5_LastRoundDisarms ==
    \A i \in Agents : upd_ev[i].fired_ammo = 1 => upd_ev[i].end.holding.gid = 0

C5_Witness ==
    \E i \in Agents : upd_ev[i].fired_ammo = 1 /\ Len(beams) > 0 /\ beams[Len(beams)].age = DT

\* the beams in flight
Beams == {beams[k] : k \in 1..Len(beams)}
InBeam(bm, t) ==
    seg_point_dist(bm.sx, bm.sy, bm.ex, bm.ey, players[t].x, center_y(players[t]))
        <= bm.width \div 2 + P(18)

\* C2: over its life a beam applies its damage to each agent at most once,
\* and so lowers the health of each agent at most once; this also when the
\* agent dies of the hit and respawns in the path of the beam.
C2_BeamHitsOnce ==
    \A bm \in Beams : \A t \in Agents :
        /\ bm.calls[t] <= 1
        /\ bm.hurt[t] <= 1
        /\ bm.calls[t] = 1 <=> t \in bm.hit_once
        /\ bm.calls[bm.owner] = 0

C2_Witness ==
    \E bm \in Beams : \E t \in Agents :
        /\ bm.hurt[t] = 1 /\ hist[t].respawned /\ players[t].alive
        /\ Beam_active(bm) /\ bm.age > bm.warmup + DT /\ InBeam(bm, t)

\* C6: the air-jump count of every agent stays within 0..max_air_jumps, and
\* at the end of every tick in which the agent lands (on the top of a SOLID
\* rectangle or on a THIN platform) it equals max_air_jumps.
C6_AirJumpsBounded ==
    \A i \in Agents :
        /\ players[i].air_jumps >= 0
        /\ players[i].air_jumps <= max_air_jumps
        /\ upd_ev[i].landed => players[i].air_jumps = max_air_jumps

C6_Witness ==
    /\ upd_ev[1].landed /\ upd_ev[1].start.air_jumps = 0
    /\ players[1].air_jumps = max_air_jumps
    /\ \E i \in Agents : upd_ev[i].landed /\ upd_ev[i].thin = <<>>

\* the THIN platforms that altered an agent in the last tick, with the
\* agent as the vertical step had moved it
ThinLandings == {<<i, k>> : i \in Agents, k \in 1..4} \cap
                {<<i, k>> \in Agents \X (1..4) : k <= Len(upd_ev[i].thin)}
FeetBefore(i, k) == upd_ev[i].thin[k].post - upd_ev[i].thin[k].vy
Edge(i, k) == top(build_level[upd_ev[i].thin[k].k].r)

\* C7 as stated: a THIN platform alters an agent only if it is not moving
\* upward, is not dropping through, and its feet cross the top edge from
\* above in that tick (they were at or above the edge before the step).
C7_Original ==
    \A e \in ThinLandings :
        LET ev == upd_ev[e[1]].thin[e[2]]
        IN /\ ev.vy >= 0
           /\ ev.dtt <= 0
           /\ FeetBefore(e[1], e[2]) <= Edge(e[1], e[2])
           /\ ev.post > Edge(e[1], e[2])

\* C7, amended: a THIN platform alters an agent only if it is not moving
\* upward, is not dropping through, its feet are below the top edge after
\* the step and were no more than 2 units below it before the step.
C7_ThinOneWayWithin2 ==
    \A e \in ThinLandings :
        LET ev == upd_ev[e[1]].thin[e[2]]
        IN /\ ev.vy >= 0
           /\ ev.dtt <= 0
           /\ FeetBefore(e[1], e[2]) <= Edge(e[1], e[2]) + P(2)
           /\ ev.post > Edge(e[1], e[2])
           /\ upd_ev[e[1]].ran /\ ~upd_ev[e[1]].froze

C7_Witness ==
    \E e \in ThinLandings :
        /\ FeetBefore(e[1], e[2]) > Edge(e[1], e[2])
        /\ upd_ev[e[1]].moved.y = Edge(e[1], e[2])
        /\ upd_ev[e[1]].moved.on_ground

Solids == {k \in 1..Len(build_level) : build_level[k].t = TILE_SOLID}

\* C8: at the end of every tick (after the updates, the respawns and the
\* anti-overlap separation) no grounded agent overlaps a SOLID rectangle.
C8_GroundedClearOfSolids ==
    \A i \in Agents :
        players[i].on_ground =>
            \A k \in Solids : ~intersects(aabb(players[i]), build_level[k].r)

\* the teleporters whose entry the agent's box met after its movement
Entered(i) ==
    {k \in 1..Len(build_teleports) :
        intersects(aabb(upd_ev[i].moved), build_teleports[k].rect)}
FirstEntered(i) == CHOOSE k \in Entered(i) : \A k2 \in Entered(i) : k <= k2

\* C9: a living agent that is not in hitlag, has no teleport cooldown left
\* and whose box meets a teleporter entry after its movement is, at the end
\* of that Player.update, at the exit of the first such teleporter of the
\* list, with 0.2 times the velocity it had, and its cooldown set to 0.5 s.
C9_TeleportMoves ==
    \A i \in Agents :
        LET ev == upd_ev[i]
        IN /\ (ev.ran /\ ~ev.froze /\ ev.moved.tp_cd <= 0 /\ Entered(i) # {}) =>
                  /\ ev.tp = FirstEntered(i)
                  /\ ev.end.x = build_teleports[ev.tp].exit[1]
                  /\ ev.end.y = build_teleports[ev.tp].exit[2]
                  /\ ev.end.vx = Scale(ev.moved.vx, 2, 10)
                  /\ ev.end.vy = Scale(ev.moved.vy, 2, 10)
                  /\ ev.end.tp_cd = Timer(50)
           /\ ev.tp # 0 => (ev.ran /\ ~ev.froze /\ ev.tp \in Entered(i))

C9_Witness ==
    \E i \in Agents :
        /\ upd_ev[i].tp = 3 /\ upd_ev[i].moved.vx # 0
        /\ upd_ev[i].end.vx # upd_ev[i].moved.vx

\* the time from the teleport before the last one to the last one
SincePrevious(i) == hist[i].prev_since + DT

\* C10 as stated: an agent that was teleported is not teleported again before
\* 0.5 s have passed, whatever happens in between (damage, a kill, a respawn).
C10_Original ==
    \A i \in Agents : upd_ev[i].tp # 0 => SincePrevious(i) >= S100(50)

\* C10, amended: an agent that was teleported is not teleported again before
\* 0.5 s have passed, unless it was respawned in between (Player.respawn
\* clears the cooldown).
C10_CooldownUnlessRespawned ==
    \A i \in Agents :
        /\ upd_ev[i].tp # 0 => (SincePrevious(i) >= S100(50) \/ hist[i].prev_respawned)
        /\ (upd_ev[i].tp # 0 /\ hist[i].prev_respawned) => upd_ev[i].start.deaths > 0

C10_Witness ==
    \E i \in Agents :
        /\ upd_ev[i].ran /\ ~upd_ev[i].froze /\ upd_ev[i].tp = 0
        /\ Entered(i) # {} /\ upd_ev[i].moved.tp_cd > 0
        /\ ~hist[i].respawned

\* the Player.damage calls of the last tick that took a vulnerable agent's
\* health to 0 or below
Lethal == {e \in Logged(dmg_log) : e.pre[e.tgt].invuln <= 0 /\ e.pre[e.tgt].hp - e.amt <= 0}

\* the books of a kill of t by att (0: nobody), from the agents pre to post
Accounted(pre, post, t, att) ==
    /\ ~post[t].alive
    /\ post[t].deaths = pre[t].deaths + 1
    /\ \A a \in DOMAIN pre :
           post[a].kos = pre[a].kos + (IF a = att /\ att # t THEN 1 ELSE 0)

\* C11: damage that takes a vulnerable agent's health to 0 or below makes it
\* not alive and adds exactly 1 to its deaths; the attacker's kills grow by
\* exactly 1 if and only if there is an attacker and it is another agent (no
\* credit for a ring-out or for self-inflicted damage).  Stated of the calls
\* of every tick, and of Player.damage applied to every reachable state with
\* every attacker.
C11_KillAccounting ==
    /\ \A e \in Lethal : Accounted(e.pre, e.post, e.tgt, e.att)
    /\ \A t \in Agents, att \in {0} \cup Agents :
           \A amount \in {players[t].hp, players[t].hp + 1, 999} :
               players[t].invuln <= 0 =>
                   Accounted(players,
                             Player_damage(World, t, amount, <<0, 0>>, att,
                                           <<"ring", 0>>).players,
                             t, att)

C11_Witness ==
    \E e \in Lethal :
        /\ e.att # 0 /\ e.att # e.tgt
        /\ e.post[e.att].kos = e.pre[e.att].kos + 1
        /\ players[e.tgt].deaths = e.pre[e.tgt].deaths + 1

\* the agents that died in the last tick, with the weapon they held then
Fell(i) == \E e \in Lethal : e.tgt = i
HeldBefore(i) == {e.pre[i].holding.gid : e \in {d \in Lethal : d.tgt = i}}
SpawnPoints == {respawns[k] : k \in 1..Len(respawns)}

\* a respawned agent but for its place: full health, 0.8 s of
\* invulnerability, at rest, holding a weapon created in this tick with the
\* full ammunition of its catalog entry
Refitted(i) ==
    /\ players[i].hp = 100
    /\ players[i].invuln = Timer(80)
    /\ players[i].vx = 0 /\ players[i].vy = 0
    /\ players[i].holding.gid # 0
    /\ players[i].holding.gid \notin HeldBefore(i)
    /\ players[i].holding.gid >= next_id - Cardinality({j \in Agents : Fell(j)})
    /\ players[i].holding.owner = i
    /\ players[i].holding.state = "equipped"
    /\ players[i].holding.ammo = GUNS[players[i].holding.gdef].ammo
    /\ \A k \in 1..Len(guns) : guns[k].gid # players[i].holding.gid

\* C12 as stated: at every tick boundary every agent is alive, and an agent
\* that died in the tick is at one of the spawn points, refitted.
C12_Original ==
    \A i \in Agents :
        /\ players[i].alive
        /\ Fell(i) => (Refitted(i) /\ <<players[i].x, players[i].y>> \in SpawnPoints)

\* the distance of the centres of the two agents is at least d
Apart(d) ==
    ~within(players[2].x - players[1].x, center_y(players[2]) - center_y(players[1]),
            d, TRUE)

\* C12, amended: at every tick boundary every agent is alive, and an agent
\* that died in the tick is refitted and at the height of a spawn point, at
\* most 16 units beside it: exactly on it unless the anti-overlap separation
\* of the same tick found the other agent within 32 units and pushed the two
\* apart.
C12_RespawnedThenSeparated ==
    \A i \in Agents :
        /\ players[i].alive
        /\ Fell(i) =>
               /\ Refitted(i)
               /\ \E sp \in SpawnPoints :
                      /\ players[i].y = sp[2]
                      /\ Abs(players[i].x - sp[1]) <= P(16)
                      /\ Apart(P(48)) => players[i].x = sp[1]

C12_Witness ==
    \E i \in Agents :
        /\ Fell(i) /\ Refitted(i)
        /\ <<players[i].x, players[i].y>> \notin SpawnPoints
        /\ stuck_timer > 0

\* p is outside every wind zone and every teleporter entry
InTheClear(p) ==
    /\ wind(p, 1, 0) = 0
    /\ first_teleport(p, 1) = 0

\* YOU stands at full health on the main floor, in the clear
AtRest ==
    /\ players[1].alive /\ players[1].hp = 100
    /\ players[1].on_ground /\ players[1].y = floor_y
    /\ InTheClear(players[1])

\* C13: over a tick in which an idle agent at full health, standing on the
\* solid floor outside wind zones and teleporters, is neither hit nor pushed
\* away from the other agent, its position does not change, it stays
\* grounded and its health stays 100; hence the same after every one of the
\* 300 ticks of an undisturbed run.
C13_IdleStays ==
    [][(/\ AtRest
        /\ \A e \in Logged(dmg_log') : e.tgt # 1
        /\ stuck_timer' <= stuck_timer)
       => /\ players'[1].x = players[1].x
          /\ players'[1].y = players[1].y
          /\ players'[1].on_ground
          /\ players'[1].hp = 100]_vars

\* after the 300 ticks: YOU untouched, though the bot has shot
C13_Witness ==
    /\ Elapsed = RestTicks
    /\ AtRest
    /\ players[1].deaths = 0
    /\ players[1].x \in {P(1000), P(1100), P(1300)}
    /\ players[2].holding.gid = 2
    /\ players[2].holding.ammo < GUNS[1].ammo

\* the projectiles and beams one primary fire of catalog entry g emits
Emits(g) ==
    CASE GUNS[g].name = "Shotgun" -> [bullets |-> 7, beams |-> 0]
      [] GUNS[g].name = "SMG" -> [bullets |-> 3, beams |-> 0]
      [] GUNS[g].name = "Laser" -> [bullets |-> 0, beams |-> 1]
      [] OTHER -> [bullets |-> 1, beams |-> 0]

\* C14: a primary fire emits 7 projectiles with the shotgun, 3 with the
\* SMG, 1 with pistol, rifle, sniper and rocket, and one beam and no
\* projectile with the laser; the ammo of the weapon goes down by that
\* number (the weapon is discarded when nothing is left).
C14_AmmoPerProjectile ==
    \A i \in Agents :
        upd_ev[i].gun # 0 =>
            /\ Cardinality(upd_ev[i].shot) = Emits(upd_ev[i].gun).bullets
            /\ Cardinality(upd_ev[i].cast) = Emits(upd_ev[i].gun).beams
            /\ IF upd_ev[i].fired_ammo
                    > Cardinality(upd_ev[i].shot) + Cardinality(upd_ev[i].cast)
               THEN /\ upd_ev[i].end.holding.gdef = upd_ev[i].gun
                    /\ upd_ev[i].end.holding.ammo =
                           upd_ev[i].fired_ammo - Cardinality(upd_ev[i].shot)
                                                - Cardinality(upd_ev[i].cast)
               ELSE upd_ev[i].end.holding.gid = 0

C14_Witness ==
    /\ upd_ev[1].gun # 0
    /\ GUNS[upd_ev[1].gun].name = "Shotgun"
    /\ Cardinality(upd_ev[1].shot) = 7
    /\ upd_ev[1].fired_ammo = 16
    /\ upd_ev[1].end.holding.ammo = 9

\* C15: when an agent fires one shotgun blast at an agent 50 units away
\* that is not invulnerable, and at least one pellet strikes it, the health
\* the blast takes from it in all is at least 24 and at most 7 x 24.
C15_BlastToll ==
    \A i \in Agents :
        (hist[i].blast.clear /\ hist[i].blast.gap = P(50) /\ hist[i].blast.hits >= 1)
            => (hist[i].blast.lost >= 24 /\ hist[i].blast.lost <= 7 * 24)

\* a blast at 50 units of which several pellets struck
C15_Witness ==
    /\ hist[1].blast.clear /\ hist[1].blast.gap = P(50)
    /\ Cardinality(hist[1].blast.ids) = 7
    /\ hist[1].blast.hits >= 2
    /\ hist[1].blast.lost = 24

\* the weapon entities of the state: those held and those of Game.guns
Weapons ==
    {players[i].holding : i \in {j \in Agents : players[j].holding.gid # 0}}
    \cup {guns[k] : k \in 1..Len(guns)}

C17_OutOfBoundsRemoved ==
    \A k \in 1..Len(bullets) :
        /\ bullets[k].x >= 0 /\ bullets[k].x <= P(WORLD_W)
        /\ bullets[k].y >= 0 /\ bullets[k].y <= P(WORLD_H)

\* agent i ended its update of this tick below the lower bound of the world
Below(i) ==
    /\ upd_ev[i].ran /\ upd_ev[i].start.alive
    /\ upd_ev[i].end.y > P(WORLD_H - 4)

RungOut(i) ==
    /\ ~upd_ev[i].end.alive
    /\ upd_ev[i].end.deaths = upd_ev[i].start.deaths + 1

\* C18 as stated: a living agent whose update ends with y > WORLD_H - 4 is
\* not alive when the update returns and has one death more, also when it
\* was hit shortly before.
C18_Original == \A i \in Agents : Below(i) => RungOut(i)

\* C18, amended: the same unless the agent is within its invulnerability
\* window in that update (after a hit or a respawn): then the lethal damage
\* is ignored, and the agent is still alive, its deaths unchanged, when the
\* update returns.
C18_RingOutUnlessInvulnerable ==
    \A i \in Agents :
        Below(i) =>
            IF invulnerable(tick_timers(upd_ev[i].start))
            THEN upd_ev[i].end.alive /\ upd_ev[i].end.deaths = upd_ev[i].start.deaths
            ELSE RungOut(i)

C18_Witness ==
    \E i \in Agents :
        /\ Below(i) /\ RungOut(i)
        /\ ~invulnerable(tick_timers(upd_ev[i].start))
        /\ \E e \in Logged(dmg_log) : e.tgt = i /\ e.src[1] = "ring"

\* C19 as stated: an update whose inputs have no aim point leaves last_aim
\* as it was and, unless the agent is frozen, faces the agent towards it.
C19_KeepsLastAim ==
    \A i \in Agents :
        (upd_ev[i].ran /\ ~upd_ev[i].aimed) =>
            /\ upd_ev[i].end.last_aim = upd_ev[i].start.last_aim
            /\ ~upd_ev[i].froze =>
                   upd_ev[i].end.face
                       = (IF upd_ev[i].start.last_aim[1] > upd_ev[i].moved.x THEN 1 ELSE -1)

\* the worlds the updates of the Roof scenario reach from the current state
\* before the respawns, one per choice of the inputs and of the jitter draws
\* (no pickup is spawned and the bot's random tests fail)
Advanced ==
    {Game_advance(World, [you |-> inp, jumps |-> FALSE, attacks |-> FALSE,
                          jit |-> <<j1, [j \in 1..7 |-> 0]>>],
                  [surf |-> 1, den |-> SpawnGrid, xs |-> [j \in 1..9 |-> 0],
                   gun |-> 1, dammo |-> 0]) :
        inp \in RoofPlays, j1 \in JitterDraws(players[1], TRUE, FALSE)}

\* the draws of one respawn: a spawn point and a weapon
RespawnDraw == (1..Len(respawns)) \X (1..Len(GUNS))

C21_Original ==
    \A e \in Logged(bul_log), f \in Logged(bul_log) : f.id \in e.listed

\* the projectiles' pass of the last tick: it ran over the list as it was
\* when it started, updated each of its members once, took each one whose
\* update returned False out of the list at once and kept the others
BulletsOnce ==
    /\ \A j \in 1..Len(bul_log), k \in 1..Len(bul_log) :
           /\ j # k => bul_log[j].id # bul_log[k].id
           /\ j < k => (bul_log[j].id \in bul_log[k].listed <=> bul_log[j].alive)
           /\ j >= k => bul_log[j].id \in bul_log[k].listed
    /\ bul_log # <<>> => bul_log[1].listed = {e.id : e \in Logged(bul_log)}
    /\ Ids(bullets) = {e.id : e \in {d \in Logged(bul_log) : d.alive}}

\* C21, amended: every loop runs over a copy of its list made when it
\* starts, and a removal is applied to the list itself as soon as the
\* update of the entity has returned; in every tick each projectile, beam
\* and weapon pickup present when its pass starts is advanced exactly once:
\* a projectile or beam of the tick before is one step older or gone, one
\* created in the tick is one step old, and a pickup in flight has moved by
\* one step.
C21_EachAdvancedOnce ==
    [][/\ BulletsOnce'
       /\ bullets = <<>> /\ upd_ev'[1].shot \cup upd_ev'[2].shot = {} => bul_log' = <<>>
       /\ \A k \in 1..Len(bullets) :
              \E e \in Logged(bul_log') : e.id = bullets[k].id
       /\ \A k \in 1..Len(bullets') :
              bullets'[k].age =
                  (IF bullets'[k].id \in Ids(bullets)
                   THEN bullets[index_of(bullets, bullets'[k].id)].age + DT ELSE DT)
       /\ \A k \in 1..Len(beams') :
              beams'[k].age =
                  (IF beams'[k].id \in Ids(beams)
                   THEN beams[index_of(beams, beams'[k].id)].age + DT ELSE DT)
       /\ \A k \in 1..Len(beams) :
              beams[k].id \notin Ids(beams')
                  => ~Beam_result([w |-> World, bm |-> [beams[k] EXCEPT !.age = @ + DT]]).alive
       /\ \A k \in 1..Len(guns) :
              LET kept == {j \in 1..Len(guns') : guns'[j].gid = guns[k].gid}
              IN /\ Cardinality(kept) <= 1
                 /\ \A j \in kept : guns'[j] = GunEntity_move(guns[k])
                 /\ (kept = {} /\ guns[k].state # "ground") => ~GunEntity_update(guns[k])
      ]_vars

\* a tick in which a projectile is removed before a later one is updated,
\* while a thrown weapon is in flight
C21_Witness ==
    /\ \E j \in 1..Len(bul_log), k \in 1..Len(bul_log) :
           j < k /\ ~bul_log[j].alive /\ bul_log[j].id \notin bul_log[k].listed
    /\ \E k \in 1..Len(guns) : guns[k].state = "tossed"

\* the agent p stands within the beam's distance threshold of its ray
Near(bm, p) ==
    seg_point_dist(bm.sx, bm.sy, bm.ex, bm.ey, p.x, center_y(p)) <= bm.width \div 2 + P(18)

\* C22 as stated: an agent other than the owner to which a beam has applied
\* its damage (it was alive and within the threshold in a tick of the active
\* phase) has lost health from that beam exactly once.
C22_Original ==
    \A bm \in Beams : \A t \in Agents \ {bm.owner} :
        bm.calls[t] = 1 => bm.hurt[t] = 1

\* the Player.damage call beam bm made on agent t in the last tick
BeamCall(log, bm, t) == {e \in Logged(log) : e.src = <<"beam", bm.id>> /\ e.tgt = t}

\* C22, amended: a living agent other than the owner that is within the
\* threshold in a tick of the active phase has the beam's damage applied to
\* it in the first such tick and never again during the cast; it loses
\* health from the beam exactly once if it is not invulnerable in that tick,
\* and not at all if it is, however long it then stays in range.
C22_HurtOnceUnlessInvulnerable ==
    [][\A k \in 1..Len(beams') : \A t \in Agents \ {beams'[k].owner} :
          LET bm == beams'[k]
              was == IF bm.id \in Ids(beams) THEN beams[index_of(beams, bm.id)]
                     ELSE Beam_to(bm.id, bm.owner, <<0, 0>>, <<0, 0>>, <<0, 0>>)
              died == \E e \in Logged(dmg_log') : e.tgt = t /\ ~e.post[t].alive
          IN /\ bm.calls[t] \in {was.calls[t], was.calls[t] + 1} /\ bm.calls[t] <= 1
             /\ bm.calls[t] = was.calls[t]
                    => bm.hurt[t] = was.hurt[t] /\ BeamCall(dmg_log', bm, t) = {}
             /\ bm.calls[t] = was.calls[t] + 1
                    => /\ Beam_active(bm)
                       /\ BeamCall(dmg_log', bm, t) # {}
                       /\ \A e \in BeamCall(dmg_log', bm, t) :
                              /\ Near(bm, e.pre[t]) /\ e.pre[t].alive
                              /\ bm.hurt[t] = (IF e.pre[t].invuln > 0 THEN 0 ELSE 1)
             /\ (/\ Beam_active(bm) /\ players'[t].alive /\ ~died
                 /\ stuck_timer' <= stuck_timer /\ Near(bm, players'[t]))
                    => bm.calls[t] = 1
      ]_vars

\* a beam is past its active phase; an agent stood in range through all of
\* it, invulnerable at first and vulnerable before the phase ended, and has
\* lost nothing
C22_Witness ==
    \E bm \in Beams : \E t \in Agents \ {bm.owner} :
        /\ bm.age >= bm.warmup + bm.active_time
        /\ bm.calls[t] = 1 /\ bm.hurt[t] = 0
        /\ players[t].alive /\ players[t].invuln <= 0 /\ players[t].hp = 100
        /\ Near(bm, players[t])

\* C23 as stated: an update that returns at the hitlag test (the timer is
\* still positive after its decay) has left the agent where it was and has
\* let none of the controls of the tick take effect: the horizontal velocity
\* is as before (or zero: line 424 clears a knockback also when no key is
\* held) and no dash has started, no jump was resolved and no air jump used
\* up, no drop-through has started, and nothing was picked up, thrown or
\* fired and no teleporter taken.
C23_FrozenWhole ==
    \A i \in Agents :
        LET ev == upd_ev[i] IN
        ev.froze =>
            /\ ev.end.x = ev.start.x /\ ev.end.y = ev.start.y
            /\ ev.end.vx \in {ev.start.vx, 0}
            /\ ev.end.dash_cd <= ev.start.dash_cd /\ ev.end.dash_time <= ev.start.dash_time
            /\ ev.end.on_ground = ev.start.on_ground
            /\ ev.end.air_jumps = ev.start.air_jumps
            /\ ev.end.jump_buf <= ev.start.jump_buf
            /\ ev.end.drop_through_timer <= ev.start.drop_through_timer
            /\ ev.end.holding = ev.start.holding
            /\ ev.shot = {} /\ ev.cast = {} /\ ev.tp = 0

\* agent i fires in the step: a projectile or a beam
Fires(i) == upd_ev'[i].shot # {} \/ upd_ev'[i].cast # {}

\* C24 as stated: each agent owns at most one beam of the list, and an agent
\* fires nothing before 0.95 s have passed since its last cast.
C24_Original ==
    [][\A i \in Agents :
          /\ Cardinality({k \in 1..Len(beams') : beams'[k].owner = i}) <= 1
          /\ Fires(i) => hist[i].cast_ago + DT >= S100(95)
      ]_vars

\* C24, amended: within one life of an agent.  Of the beams of the list at
\* most one was cast by the agent since its last respawn, and the agent
\* fires nothing before 0.95 s have passed since its last cast unless it has
\* respawned since; a respawn clears the cooldown, so a caster that is
\* killed can fire at once while its beam is still there.
C24_OneBeamPerLife ==
    [][\A i \in Agents :
          /\ Cardinality({k \in 1..Len(beams') :
                 beams'[k].owner = i /\ beams'[k].age <= hist'[i].born_ago}) <= 1
          /\ Fires(i) => \/ hist[i].cast_ago + DT >= S100(95)
                         \/ hist[i].born_ago < hist[i].cast_ago
      ]_vars

\* YOU, killed after its cast and back with a laser, owns two beams
C24_Witness ==
    /\ Cardinality({k \in 1..Len(beams) : beams[k].owner = 1}) = 2
    /\ hist[1].born_ago < S100(63)

\* the time a beam is in the list: warm-up, active phase and 0.12 s of fade
BeamSpan(bm) == bm.warmup + bm.active_time + S100(12)

\* C25: a beam ages by one step per tick from its cast on, through warm-up,
\* active phase and fade in this order; it applies damage to an agent (and
\* so reduces its health) only in a tick where warmup <= age < warmup +
\* active_time, and it leaves the list in the first tick where its age
\* reaches warmup + active_time + 0.12.
C25_BeamPhases ==
    [][/\ \A k \in 1..Len(beams') :
              LET bm == beams'[k]
                  was == IF bm.id \in Ids(beams) THEN beams[index_of(beams, bm.id)]
                         ELSE Beam_to(bm.id, bm.owner, <<0, 0>>, <<0, 0>>, <<0, 0>>)
              IN /\ bm.age = was.age + DT /\ bm.age < BeamSpan(bm)
                 /\ (bm.calls # was.calls \/ bm.hurt # was.hurt)
                        => bm.warmup <= bm.age /\ bm.age < bm.warmup + bm.active_time
       /\ \A e \in Logged(dmg_log') :
              e.src[1] = "beam" =>
                  \E bm \in {beams'[k] : k \in 1..Len(beams')} :
                      /\ bm.id = e.src[2]
                      /\ bm.warmup <= bm.age /\ bm.age < bm.warmup + bm.active_time
       /\ \A k \in 1..Len(beams) :
              beams[k].id \notin Ids(beams') <=> beams[k].age + DT >= BeamSpan(beams[k])
      ]_vars

\* a beam in its fade, and in range of it a living, vulnerable agent that
\* the beam has not touched
C25_Witness ==
    \E bm \in Beams : \E t \in Agents \ {bm.owner} :
        /\ players[t].alive /\ players[t].invuln <= 0 /\ Near(bm, players[t])
        /\ bm.calls[t] = 0
        /\ bm.age >= bm.warmup + bm.active_time

SightSteps == 64

\* the point (x, y) lies in a SOLID rectangle grown by d on every side
InSolid(x, y, d) ==
    \E k \in 1..Len(build_level) :
        /\ build_level[k].t = TILE_SOLID
        /\ build_level[k].r.x - d <= x /\ x <= right(build_level[k].r) + d
        /\ top(build_level[k].r) - d <= y /\ y <= bottom(build_level[k].r) + d

\* the straight line from the start of the beam to the center of agent p
\* passes through a SOLID rectangle: p is on the far side of it
Shaded(bm, p) ==
    \E j \in 0..SightSteps :
        InSolid(bm.sx + ((p.x - bm.sx) * j) \div SightSteps,
                bm.sy + ((center_y(p) - bm.sy) * j) \div SightSteps, 0)

\* C26 as stated: a beam takes no health from an agent whose center is on
\* the far side of a SOLID rectangle, seen from the start of the ray, and a
\* ray that is shorter than the full length of 154 steps of 14 units ends
\* in the step that met a SOLID rectangle, whatever THIN platforms it has
\* crossed.
C26_SolidShields ==
    /\ \A e \in Logged(dmg_log) :
           (e.src[1] = "beam" /\ e.post[e.tgt].hp < e.pre[e.tgt].hp) =>
               \A bm \in Beams : bm.id = e.src[2] => ~Shaded(bm, e.pre[e.tgt])
    /\ \A bm \in Beams :
           hypot(bm.ex - bm.sx, bm.ey - bm.sy) < P(14 * 154 - 1)
               => InSolid(bm.ex, bm.ey, P(15))

\* the pickups the spawn cadence has put into the list in the step
Spawned == {k \in 1..Len(guns') : guns'[k].gid \notin Gids(guns) /\ guns'[k].spawned_pickup}

\* C27 as stated: a pickup that Game.spawn_gun adds is at least 56 units
\* away from every pickup that was on the ground before, whatever the draws.
C27_SpawnsApart ==
    [][\A k \in Spawned : \A j \in 1..Len(guns) :
           guns[j].state = "ground" =>
               ~within(guns[j].x - guns'[k].x, guns[j].y - guns'[k].y, P(56), TRUE)
      ]_vars

\* C28: the spawn interval stays between SPAWN_MIN and SPAWN_INTERVAL_START
\* and never grows; a tick spawns at most one pickup, and only when the
\* timer elapses and the list is not full; the interval is multiplied by
\* 0.96, floored at SPAWN_MIN, exactly in the ticks that spawn a pickup;
\* whenever the timer elapses it is reset to the interval, also when the
\* list is full and nothing is spawned.
C28_SpawnCadence ==
    [][/\ S100(SPAWN_MIN) <= spawn_interval' /\ spawn_interval' <= S100(SPAWN_INTERVAL_START)
       /\ spawn_interval' <= spawn_interval
       /\ Cardinality(Spawned) <= 1
       /\ Spawned # {} <=> (spawn_timer - DT <= 0 /\ Len(guns) < MAX_GUNS)
       /\ spawn_interval' = (IF Spawned # {}
                             THEN Max((SPAWN_MIN * TU) \div 100, (spawn_interval * 96) \div 100)
                             ELSE spawn_interval)
       /\ spawn_timer' = (IF spawn_timer - DT <= 0 THEN spawn_interval' ELSE spawn_timer - DT)
       /\ Len(guns') <= MAX_GUNS
      ]_vars

\* the timer has elapsed on a full list: it is reset, nothing was spawned
\* and the interval is as it was
C28_Witness ==
    /\ CadenceElapsed = CadenceLead
    /\ Len(guns) = MAX_GUNS /\ \A k \in 1..Len(guns) : guns[k].gid < 40
    /\ spawn_timer = spawn_interval /\ spawn_interval = Shrunk(MAX_GUNS)

\* the kills of the step whose victim held a weapon when it died
ArmedKills == {e \in Logged(dmg_log') :
                 /\ e.pre[e.tgt].alive /\ ~e.post[e.tgt].alive
                 /\ e.pre[e.tgt].holding.gid # 0}

\* C29 as stated: the weapon a killed agent held is in the list of pickups
\* after the kill, on the ground, with the ammo it had.
C29_Original ==
    [][\A e \in ArmedKills :
           \E k \in 1..Len(guns') :
               /\ guns'[k].gid = e.pre[e.tgt].holding.gid
               /\ guns'[k].state = "ground"
               /\ guns'[k].ammo = e.pre[e.tgt].holding.ammo
      ]_vars

\* C29, amended: the weapon a killed agent held is not dropped.  The respawn
\* of the same tick clears it and it is gone: it is not in the list of
\* pickups and nobody holds it; the agent comes back holding a new weapon of
\* a random kind with the full ammo of that kind.
C29_WeaponLost ==
    [][\A e \in ArmedKills :
           LET old == e.pre[e.tgt].holding
               new == players'[e.tgt].holding
           IN /\ old.gid \notin Gids(guns')
              /\ \A j \in Agents : players'[j].holding.gid # old.gid
              /\ Gids(guns') \subseteq Gids(guns) \cup {guns'[k].gid : k \in Spawned}
              /\ new.gid >= next_id /\ new.gid < next_id'
              /\ new.state = "equipped" /\ new.owner = e.tgt /\ ~new.spawned_pickup
              /\ new.ammo = GUNS[new.gdef].ammo
      ]_vars

\* YOU has just been killed with the laser in its hands and one round left
\* in it; there is no pickup in the world
C29_Witness ==
    /\ \E e \in Logged(dmg_log) :
           /\ e.tgt = 1 /\ e.pre[1].alive /\ ~e.post[1].alive
           /\ e.pre[1].holding.gdef = Len(GUNS) /\ e.pre[1].holding.ammo = 1
    /\ players[1].alive /\ players[1].deaths = 1
    /\ guns = <<>>

\* agent i starts a dash in the step
DashStarts(i) == upd_ev'[i].ran /\ upd_ev'[i].end.dash_time = Timer(13)

\* the horizontal velocity the left and right keys of the update ask for
RunSpeed(keys) ==
    IF keys.left /\ ~keys.right THEN -V(440)
    ELSE IF keys.right /\ ~keys.left THEN V(440) ELSE 0

\* C30: a dash starts only in an update in which dash is requested and the
\* dash cooldown, after its decay, is 0, and never before 0.6 s have passed
\* since the start of the agent's last dash, respawns in between or not; in
\* the update that starts it the vertical velocity is halved (seen where
\* nothing else but gravity acts on it: in the air, outside the updrafts);
\* in the updates in which the dash goes on, the keys do not set the
\* horizontal velocity, which stays as it was unless a SOLID rectangle
\* stops the agent; in an update after the dash has ended the horizontal
\* velocity is the one the keys ask for, or 0 at a SOLID rectangle.
C30_Dash ==
    [][\A i \in Agents :
          LET ev == upd_ev'[i]
              dashing == Max(0, ev.start.dash_time - DT) > 0
          IN /\ DashStarts(i) =>
                    /\ ev.keys.dash /\ Max(0, ev.start.dash_cd - DT) = 0
                    /\ hist[i].dash_ago + DT >= S100(60)
                    /\ ev.end.dash_cd = Timer(60)
                    /\ (~ev.start.on_ground /\ ~ev.landed /\ wind(ev.start, 1, 0) = 0
                        /\ ev.start.jump_buf = 0)
                           => ev.end.vy = Min(Scale(ev.start.vy, 1, 2) + A(GRAVITY),
                                              V(MAX_FALL))
             /\ (ev.ran /\ ev.tp = 0 /\ ~DashStarts(i)) =>
                    IF dashing THEN ev.end.vx \in {ev.start.vx, 0}
                    ELSE ev.end.vx \in {RunSpeed(ev.keys), 0}
             /\ (ev.ran /\ ev.keys.dash /\ Max(0, ev.start.dash_cd - DT) = 0)
                    => DashStarts(i)
      ]_vars

\* YOU has dashed, was killed and has respawned before the cooldown of the
\* dash was over, and asks for a dash in vain: it goes on falling at the
\* speed the left key asks for
C30_Witness ==
    /\ players[1].deaths = 1 /\ hist[1].born_ago < hist[1].dash_ago
    /\ hist[1].dash_ago < S100(60)
    /\ upd_ev[1].keys.dash /\ upd_ev[1].ran
    /\ players[1].dash_cd > 0 /\ players[1].dash_time = 0
    /\ players[1].vx = -V(440)

\* a jump is asked of agent i in the step: by the key, or by a request of
\* the last 0.12 s that is still owed
JumpAsked(i) ==
    upd_ev'[i].keys.jump \/ (hist[i].owed /\ hist[i].ask_ago + DT < S100(12))
\* the update of the step finds agent i on the ground or in coyote time
Grounded(i) == upd_ev'[i].start.on_ground \/ upd_ev'[i].start.coyote > DT

\* C31 (as claimed): a request made in the air, out of coyote time and with
\* no air jump left, causes a jump only in an update that finds the agent
\* grounded or in coyote time, and then a ground jump
C31_Original ==
    [][\A i \in Agents :
          (hist[i].bare /\ ~upd_ev'[i].keys.jump
           /\ (GroundJump(upd_ev'[i]) \/ AirJump(upd_ev'[i])))
              => Grounded(i) /\ GroundJump(upd_ev'[i])
      ]_vars

\* C31: a jump request stays buffered for 0.12 s, the 7 updates after the
\* one that made it.  An update in which a jump is asked (by the key or by
\* a request still owed) makes a ground jump (vy = -1000, buffer cleared)
\* if it finds the agent grounded or in coyote time, an air jump (vy = -940)
\* if it does not and finds an air jump left, and no jump otherwise; an
\* update in which no jump is asked makes no jump.  So a request made in
\* the air, out of coyote time and with no air jump left causes a jump
\* only in the first update of the window that finds the agent grounded or
\* in coyote time, except that a respawn within the window gives the air
\* jumps back, and the request then makes an air jump.
C31_JumpBuffered ==
    [][\A i \in Agents :
          LET ev == upd_ev'[i]
          IN ev.ran =>
              /\ (JumpAsked(i) /\ Grounded(i)) => GroundJump(ev)
              /\ (JumpAsked(i) /\ ~Grounded(i) /\ ev.start.air_jumps > 0) => AirJump(ev)
              /\ (~JumpAsked(i) \/ (~Grounded(i) /\ ev.start.air_jumps = 0))
                     => ~GroundJump(ev) /\ ~AirJump(ev)
              /\ (hist[i].bare /\ ~ev.keys.jump /\ AirJump(ev))
                     => hist[i].born_ago <= hist[i].ask_ago
      ]_vars

\* YOU asked for a jump in the air with no air jump left, landed within the
\* window, and has just made the ground jump without the key
C31_Witness ==
    /\ GroundJump(upd_ev[1]) /\ ~upd_ev[1].keys.jump
    /\ upd_ev[1].start.air_jumps = max_air_jumps /\ upd_ev[1].start.on_ground
    /\ hist[1].ask_ago > DT /\ players[1].deaths = 0

\* C36 (as claimed): since its last landing an agent has made at most one
\* ground jump and at most max_air_jumps air jumps
C36_Original ==
    \A i \in Agents : hist[i].full <= 1 /\ hist[i].air <= max_air_jumps

\* C36: a ground jump is made only within 0.08 s (coyote time) of the
\* update in which the agent last landed, so that requests in the updates
\* after a ground jump that fall within this time make further ground
\* jumps; since its last landing or respawn an agent has made at most
\* max_air_jumps air jumps.
C36_JumpsRationed ==
    [][\A i \in Agents :
          /\ GroundJump(upd_ev'[i]) => hist[i].aloft + DT < S100(8)
          /\ hist'[i].air_life <= max_air_jumps
      ]_vars

\* YOU has made two ground jumps and an air jump without landing between
\* them, and is in the air long after coyote time
C36_Witness ==
    /\ hist[1].full = 2 /\ hist[1].air = max_air_jumps
    /\ hist[1].aloft = S100(8) /\ players[1].air_jumps = 0 /\ players[1].deaths = 0

\* the thrown weapons of Game.guns, and whether entity gid (1: the weapon
\* YOU starts with, 20: the one lying there) is one of them
Tossed == {guns[k] : k \in {j \in 1..Len(guns) : guns[j].state = "tossed"}}
Flying(gid) == \E g \in Tossed : g.gid = gid

\* C32 (as claimed): a release of the secondary action picks up or throws
C32_Original ==
    [][\A i \in Agents :
          (upd_ev'[i].ran /\ upd_ev'[i].keys.rmb)
              => Cardinality(upd_ev'[i].took) + Cardinality(upd_ev'[i].threw) = 1
      ]_vars

\* C32: a release of the secondary action does at most one of pickup and
\* throw, and nothing without a release: an armed agent that is not
\* frozen by hitlag throws, an unarmed one picks up a ground pickup or does
\* nothing.  The weapon thrown leaves the holder's slot empty and enters
\* Game.guns in the state "tossed" with its ammo; a tossed weapon is never
\* picked up, takes no health from anyone, and leaves Game.guns at last.
C32_PickOrThrow ==
    /\ [][\A i \in Agents :
             LET ev == upd_ev'[i]
             IN /\ Cardinality(ev.took) + Cardinality(ev.threw) <= 1
                /\ ~(ev.ran /\ ev.keys.rmb) => ev.took = {} /\ ev.threw = {}
                /\ (ev.ran /\ ~ev.froze /\ ev.keys.rmb /\ ev.start.holding.gid # 0)
                       => ev.threw # {}
                /\ \A g \in ev.threw :
                       /\ ev.end.holding = None
                       /\ g.gid = ev.start.holding.gid /\ g.ammo = ev.start.holding.ammo
                       /\ g.state = "tossed"
                /\ \A g \in ev.took :
                       /\ g.state = "ground" /\ ev.start.holding.gid = 0
                       /\ ev.end.holding.gid = g.gid /\ ev.end.holding.ammo = g.ammo
                /\ \A g \in Tossed : players'[i].holding.gid # g.gid
                /\ (bullets = <<>> /\ beams = <<>> /\ ev.shot = {} /\ ev.cast = {})
                       => players'[i].hp = players[i].hp
         ]_vars
    /\ \A gid \in {1, 20} : Flying(gid) ~> ~Flying(gid)

\* YOU has thrown its weapon away, picked up the one lying there before the
\* bot could, and thrown it at the bot: it is passing through the bot, which
\* has all its health
C32_Witness ==
    /\ players[1].holding.gid = 0 /\ players[2].holding.gid = 0
    /\ ~Flying(1) /\ 1 \notin Gids(guns)
    /\ \E g \in Tossed :
           /\ g.gid = 20 /\ g.ammo = GUNS[1].ammo
           /\ intersects(Rect(g.x - P(16), g.y - P(16), P(32), P(32)), aabb(players[2]))
    /\ players[2].hp = 100

\* C33 as stated: an agent that a bullet has hit (and not killed), that has
\* touched neither left, right nor dash since, and whose hitlag is over, is
\* no longer where it was when hit: it has moved the way the knockback
\* pointed, the way the bullet flew.
C33_KnockbackMoves ==
    \A i \in Agents :
        (/\ hist[i].knock # 0 /\ hist[i].still
         /\ upd_ev[i].ran /\ ~upd_ev[i].froze /\ hist[i].hurt_ago > 0)
            => Sgn(players[i].x - hist[i].hit_x) = hist[i].knock

\* C34: every projectile of Game.bullets is younger than its lifetime, which
\* is at most 1.2 s, and every beam of Game.beams younger than 0.63 s; each
\* of them is 1/60 s old at the end of the tick that created it and 1/60 s
\* older at the end of every further tick it stays for.  So none stays
\* beyond the update in which its age reaches its lifetime.
C34_Retired ==
    [][/\ \A k \in 1..Len(bullets') :
              LET b == bullets'[k]
              IN /\ b.age < b.life /\ b.life <= S100(120)
                 /\ \A j \in 1..Len(bullets) :
                        bullets[j].id = b.id => b.age = bullets[j].age + DT
                 /\ b.id \notin Ids(bullets) => b.age = DT
       /\ \A k \in 1..Len(beams') :
              LET bm == beams'[k]
              IN /\ bm.age < S100(63)
                 /\ \A j \in 1..Len(beams) :
                        beams[j].id = bm.id => bm.age = beams[j].age + DT
                 /\ bm.id \notin Ids(beams) => bm.age = DT
      ]_vars

\* a rocket has flown for all but the last tick of its 1.2 s and has been
\* stopped by nothing
C34_Witness ==
    \E k \in 1..Len(bullets) :
        /\ bullets[k].explosive /\ bullets[k].life = S100(120)
        /\ bullets[k].age + DT = bullets[k].life

RECURSIVE Toll(_, _, _)
\* the health the Player.damage calls of the log, from entry k on, took
\* from agent t
Toll(log, t, k) ==
    IF k > Len(log) THEN 0
    ELSE Toll(log, t, k + 1)
         + (IF log[k].tgt = t THEN log[k].pre[t].hp - log[k].post[t].hp ELSE 0)

\* C35 as stated: the damage GameEnv.step counts as dealt and as taken in
\* a tick is the health that the tick's Player.damage calls took from the
\* bot and from YOU, also in a tick in which a hit kills, in which the
\* kill is counted as well.
C35_DamageCounted ==
    [][/\ GameEnv_outcomes(players, players').dmg_dealt = Toll(dmg_log', 2, 1)
       /\ GameEnv_outcomes(players, players').dmg_taken = Toll(dmg_log', 1, 1)
      ]_vars

\* C37: from tick to tick no agent's kills or deaths decrease; an agent's
\* deaths grow by the number of the tick's Player.damage calls that took its
\* health, while vulnerable, to 0 or below, which is at most 1; no call is
\* made on an agent that is not alive; and all kills together are at most
\* all deaths together.
C37_CountersSound ==
    [][/\ \A i \in Agents :
              /\ players'[i].kos >= players[i].kos
              /\ players'[i].deaths >= players[i].deaths
              /\ players'[i].deaths
                     = players[i].deaths + Cardinality({e \in Lethal' : e.tgt = i})
              /\ Cardinality({e \in Lethal' : e.tgt = i}) <= 1
       /\ \A k \in 1..Len(dmg_log') : dmg_log'[k].pre[dmg_log'[k].tgt].alive
       /\ players'[1].kos + players'[2].kos <= players'[1].deaths + players'[2].deaths
      ]_vars

\* an agent has been killed by the other and an agent has fallen out of
\* the world: one kill, two deaths
C37_Witness ==
    /\ players[1].kos + players[2].kos = 1
    /\ players[1].deaths + players[2].deaths = 2

\* C38: at every tick boundary an agent's weapon is equipped, owned by that
\* agent, loaded with at least one round and absent from Game.guns; the
\* entities of Game.guns are on the ground or tossed and each is listed
\* once; and the two agents never hold the same entity.
C38_OnePlace ==
    /\ \A i \in Agents :
           players[i].holding.gid # 0
               => /\ players[i].holding.state = "equipped"
                  /\ players[i].holding.owner = i
                  /\ players[i].holding.ammo >= 1
                  /\ players[i].holding.gid \notin Gids(guns)
    /\ \A k \in 1..Len(guns) :
           /\ guns[k].state \in {"ground", "tossed"}
           /\ \A l \in 1..Len(guns) : guns[l].gid = guns[k].gid => l = k
    /\ players[1].holding.gid # 0 => players[2].holding.gid # players[1].holding.gid

\* YOU, having thrown its pistol, picks up the spawned one in the tick in
\* which the unarmed bot has come within reach of it as well
C38_Witness ==
    /\ upd_ev[1].keys.rmb
    /\ 20 \in {g.gid : g \in upd_ev[1].took}
    /\ players[1].holding.gid = 20
    /\ upd_ev[2].start.holding.gid = 0
    /\ Abs(P(1740) - upd_ev[2].start.x) < P(56)
    /\ players[2].holding.gid = 0
    /\ 1 \in Gids(guns)

\* C39: in one tick at most one Player.damage call takes health from an
\* agent, and one that does comes no sooner than 0.35 s (21 ticks) after the
\* tick in which the agent last lost health and no sooner than 0.8 s (48
\* ticks) after the tick of its last respawn.
C39_OncePerWindow ==
    [][\A i \in Agents :
           /\ Cardinality(Hurts(dmg_log', i)) <= 1
           /\ Hurts(dmg_log', i) # {}
                  => /\ hist[i].hurt_ago + DT >= S100(35)
                     /\ hist[i].born_ago + DT >= S100(80)]_vars

\* the bot, killed and respawned once and shot at all the time, loses
\* health again once the 0.8 s are over
C39_Witness ==
    /\ players[2].deaths = 1 /\ players[2].alive /\ players[2].hp < 100
    /\ Hurts(dmg_log, 2) # {}
    /\ hist[2].born_ago >= S100(80)
    /\ hist[2].hurt_ago = 0

\* the catalog damage of the weapon called name
Catalog(name) == GUNS[CHOOSE g \in 1..Len(GUNS) : GUNS[g].name = name].dmg

\* C40 as stated: every Player.damage call a projectile or a beam makes by
\* hitting an agent that is not invulnerable takes from it the damage per
\* hit that the catalog gives for the weapon that fired it (for a beam, the
\* laser), whatever the firing agent holds by then.
C40_CatalogDamage ==
    \A e \in Logged(dmg_log) :
        e.pre[e.tgt].invuln <= 0
            => /\ e.src[1] = "beam"
                      => e.pre[e.tgt].hp - e.post[e.tgt].hp = Catalog("Laser")
               /\ e.src[1] = "bullet"
                      => \E f \in Logged(bul_log) :
                             /\ f.id = e.src[2]
                             /\ e.pre[e.tgt].hp - e.post[e.tgt].hp = Catalog(f.by)

===========================================================================
